---- MODULE Spec2Model ----
(***************************************************************************)
(* A model of the osu! beatmap codec (crate osu-beatmap-parser).           *)
(*                                                                         *)
(* Text is modelled as a sequence of one-character strings, so that the    *)
(* codec's substring searches, splits and trims are computed as the code   *)
(* computes them.  Every parser returns a result tagged "Ok", "Err" or     *)
(* "Panic"; "Panic" is the outcome of an `unwrap()` on an error, of an     *)
(* index out of bounds or of an invalid slice range.                       *)
(*                                                                         *)
(* Numbers: i32 / u32 / u8 values are integers.  f32 values are modelled   *)
(* as an integer number of thousandths (enough for every literal of the    *)
(* crate's tests, e.g. 310.123); texts with exponents, inf or NaN, or with *)
(* more than three fractional digits, are outside the model's alphabet.    *)
(***************************************************************************)
EXTENDS Integers, Sequences, FiniteSets, TLC

VARIABLES
    codec,  \* the codec under exercise: "BeatmapLevel", "GeneralSection", ...
    pc,     \* position in the pipeline: text -> value -> out -> back -> out2
    src,    \* the text handed to the first from_str (when the run starts from text)
    val,    \* result of from_str(src), or the value the caller constructed
    out,    \* to_string(val)
    back,   \* result of from_str(out)
    out2    \* to_string(back)

vars == <<codec, pc, src, val, out, back, out2>>

-----------------------------------------------------------------------------
(* Results and options *)

Ok(v) == [tag |-> "Ok", v |-> v]
Err(e) == [tag |-> "Err", e |-> e]
Panic == [tag |-> "Panic"]
IsOk(r) == r.tag = "Ok"
IsErr(r) == r.tag = "Err"
IsPanic(r) == r.tag = "Panic"

Some(v) == [some |-> TRUE, v |-> v]
None == [some |-> FALSE]

\* BeatmapParseError (error.rs:10-21)
NotValidPair == [kind |-> "NotValidPair"]
InvalidFormat(field) == [kind |-> "InvalidFormat", field |-> field]
CommentaryEntry == [kind |-> "CommentaryEntry"]
StoryboardEntry == [kind |-> "StoryboardEntry"]
SectionNotFound(section) == [kind |-> "SectionNotFound", section |-> section]

\* `r.map_err(|_| e)`
MapErr(r, e) == IF IsErr(r) THEN Err(e) ELSE r

\* A run of `?` steps: the first of `steps` that is not Ok, if any
FirstFailure(steps) ==
    LET first(bad) ==
            IF bad = {} THEN None
            ELSE Some(steps[CHOOSE i \in bad : \A j \in bad : i <= j])
    IN  first({i \in 1..Len(steps) : ~IsOk(steps[i])})

-----------------------------------------------------------------------------
(* Text primitives (Rust str methods used by the codec) *)

WhiteSpace == {" ", "\n", "\t", "\r"}

Digit == <<"0", "1", "2", "3", "4", "5", "6", "7", "8", "9">>

DigitChars == {Digit[i] : i \in 1..10}

DigitValue(c) == (CHOOSE i \in 1..10 : Digit[i] = c) - 1

MinOf(S) == CHOOSE i \in S : \A j \in S : i <= j

MaxOf(S) == CHOOSE i \in S : \A j \in S : j <= i

\* str::trim
Trim(s) ==
    LET keep == {i \in 1..Len(s) : s[i] \notin WhiteSpace}
    IN  IF keep = {} THEN <<>> ELSE SubSeq(s, MinOf(keep), MaxOf(keep))

\* str::contains
Contains(s, pat) ==
    \E i \in 1..(Len(s) - Len(pat) + 1) : SubSeq(s, i, i + Len(pat) - 1) = pat

\* str::starts_with
StartsWith(s, pat) == Len(s) >= Len(pat) /\ SubSeq(s, 1, Len(pat)) = pat

\* str::find: the byte index (from 0) of the first occurrence, or None
Find(s, pat) ==
    LET hits == {i \in 1..(Len(s) - Len(pat) + 1) : SubSeq(s, i, i + Len(pat) - 1) = pat}
    IN  IF hits = {} THEN None ELSE Some(MinOf(hits) - 1)

\* str::split_once(c)
SplitOnce(s, c) ==
    LET hits == {i \in 1..Len(s) : s[i] = c}
    IN  IF hits = {} THEN None
        ELSE LET k == MinOf(hits)
             IN  Some(<<SubSeq(s, 1, k - 1), SubSeq(s, k + 1, Len(s))>>)

\* str::split(c), collected: always at least one piece
RECURSIVE Split(_, _)
Split(s, c) ==
    LET cut == SplitOnce(s, c)
    IN  IF cut.some THEN <<cut.v[1]>> \o Split(cut.v[2], c) ELSE <<s>>

\* str::splitn(n, c), collected: at most n pieces, the last holds the rest
RECURSIVE SplitN(_, _, _)
SplitN(n, s, c) ==
    LET cut == SplitOnce(s, c)
    IN  IF n > 1 /\ cut.some THEN <<cut.v[1]>> \o SplitN(n - 1, cut.v[2], c) ELSE <<s>>

\* `.map(|x| x.trim()).collect()`
TrimAll(parts) == [i \in 1..Len(parts) |-> Trim(parts[i])]

\* `.last()` of a non-empty collection
Last(parts) == parts[Len(parts)]

\* `s.trim().split(c).map(|x| x.trim()).collect()`
TrimmedSplit(s, c) == TrimAll(Split(Trim(s), c))

RECURSIVE Concat(_)
Concat(ss) == IF ss = <<>> THEN <<>> ELSE Head(ss) \o Concat(Tail(ss))

-----------------------------------------------------------------------------
(* Integer and float text (Rust std FromStr / Display) *)

IsDigits(s) == s # <<>> /\ \A i \in 1..Len(s) : s[i] \in DigitChars

RECURSIVE DigitsValue(_)
DigitsValue(s) ==
    IF s = <<>> THEN 0
    ELSE 10 * DigitsValue(SubSeq(s, 1, Len(s) - 1)) + DigitValue(s[Len(s)])

ParseIntError == [kind |-> "ParseIntError"]

\* <integer>::from_str: an optional '+' (or '-' for a signed type) and digits,
\* the value in the type's range.  Texts of more than nine digits are outside
\* the model's alphabet (TLC integers are 32 bits wide).
IntFromStr(s, signedType, hi) ==
    LET ranged(n) ==
            IF n > hi THEN Err(ParseIntError) ELSE Ok(IF s[1] = "-" THEN -n ELSE n)
        digits(body) ==
            IF ~IsDigits(body) \/ Len(body) > 9 THEN Err(ParseIntError)
            ELSE ranged(DigitsValue(body))
    IN  digits(IF s # <<>> /\ (s[1] = "+" \/ (s[1] = "-" /\ signedType))
               THEN Tail(s) ELSE s)

I32FromStr(s) == IntFromStr(s, TRUE, 999999999)

U32FromStr(s) == IntFromStr(s, FALSE, 999999999)

U8FromStr(s) == IntFromStr(s, FALSE, 255)

RECURSIVE NatToString(_)
NatToString(n) ==
    IF n < 10 THEN <<Digit[n + 1]>>
    ELSE NatToString(n \div 10) \o <<Digit[(n % 10) + 1]>>

\* Display of an integer
IntToString(n) == IF n < 0 THEN <<"-">> \o NatToString(-n) ELSE NatToString(n)

ParseFloatError == [kind |-> "ParseFloatError"]

\* f32::from_str, on [+-]digits[.digits]; the value in thousandths
F32FromStr(s) ==
    LET signed(n) == Ok(IF s[1] = "-" THEN -n ELSE n)
        digits(ip, fp) ==
            IF (\E i \in 1..Len(ip) : ip[i] \notin DigitChars)
               \/ (\E i \in 1..Len(fp) : fp[i] \notin DigitChars)
               \/ (ip = <<>> /\ fp = <<>>) \/ Len(fp) > 3
            THEN Err(ParseFloatError)
            ELSE signed(1000 * DigitsValue(ip)
                        + DigitsValue(SubSeq(fp \o <<"0", "0", "0">>, 1, 3)))
        point(parts) ==
            IF Len(parts) > 2 THEN Err(ParseFloatError)
            ELSE digits(parts[1], IF Len(parts) = 2 THEN parts[2] ELSE <<>>)
    IN  point(Split(IF s # <<>> /\ s[1] \in {"+", "-"} THEN Tail(s) ELSE s, "."))

\* Display of an f32: no fractional part when it is zero, no trailing zeros
F32ToString(v) ==
    LET fraction(f3, last) == IF last = 0 THEN <<>> ELSE <<".">> \o SubSeq(f3, 1, last)
        shortest(f3) == fraction(f3, MaxOf({0} \cup {i \in 1..3 : f3[i] # "0"}))
        magnitude(a) ==
            NatToString(a \div 1000)
            \o shortest(<<Digit[((a % 1000) \div 100) + 1], Digit[((a % 100) \div 10) + 1],
                          Digit[(a % 10) + 1]>>)
    IN  (IF v < 0 THEN <<"-">> ELSE <<>>) \o magnitude(IF v < 0 THEN -v ELSE v)

-----------------------------------------------------------------------------
(* Primitive value codecs (types.rs) *)

\* Fault variant of OsuBool::from_str: every text but "0" and "false" is true
OsuBool_from_str_truthy(s) ==
    IF s \in {<<"f", "a", "l", "s", "e">>, <<"0">>} THEN Ok(FALSE) ELSE Ok(TRUE)

\* OsuBool::from_str / Display (types.rs:21-43)
OsuBool_from_str(s) ==
    IF s \in {<<"t", "r", "u", "e">>, <<"1">>} THEN Ok(TRUE)
    ELSE IF s \in {<<"f", "a", "l", "s", "e">>, <<"0">>} THEN Ok(FALSE)
    ELSE Err([kind |-> "UnexpectedBoolValue"])

OsuBool_to_string(b) == IF b THEN <<"1">> ELSE <<"0">>

\* general::Gamemode (types.rs:102-154)
GamemodeNames == <<"STD", "TAIKO", "CTB", "MANIA">>

Gamemode_try_from(value) ==
    IF value \in 0..3 THEN Ok(GamemodeNames[value + 1])
    ELSE Err([kind |-> "UnexpectedGamemodeValue", value |-> value])

Gamemode_from_str(s) ==
    LET convert(n) ==
            IF IsErr(n) THEN Err([kind |-> "UnexpectedGamemodeFormat"])
            ELSE Gamemode_try_from(n.v)
    IN  convert(I32FromStr(s))

Gamemode_to_string(m) ==
    IntToString((CHOOSE i \in 1..4 : GamemodeNames[i] = m) - 1)

\* general::Countdown (types.rs:252-304)
CountdownNames == <<"NONE", "NORMAL", "HALF", "DOUBLE">>

Countdown_try_from(value) ==
    IF value \in 0..3 THEN Ok(CountdownNames[value + 1])
    ELSE Err([kind |-> "UnexpectedCountdownValue", value |-> value])

Countdown_from_str(s) ==
    LET convert(n) ==
            IF IsErr(n) THEN Err([kind |-> "UnexpectedCountdownFormat"])
            ELSE Countdown_try_from(n.v)
    IN  convert(I32FromStr(s))

Countdown_to_string(c) ==
    IntToString((CHOOSE i \in 1..4 : CountdownNames[i] = c) - 1)

\* general::OverlayPosition (types.rs:159-203)
OverlayPositionWords ==
    [NOCHANGE |-> <<"N", "o", "C", "h", "a", "n", "g", "e">>,
     BELOW    |-> <<"B", "e", "l", "o", "w">>,
     ABOVE    |-> <<"A", "b", "o", "v", "e">>]

OverlayPosition_from_str(s) ==
    IF \E k \in DOMAIN OverlayPositionWords : OverlayPositionWords[k] = s
    THEN Ok(CHOOSE k \in DOMAIN OverlayPositionWords : OverlayPositionWords[k] = s)
    ELSE Err([kind |-> "UnexpectedOverlayPosValue", value |-> s])

\* general::SampleSet (types.rs:207-248)
GeneralSampleSetWords ==
    [NORMAL |-> <<"N", "o", "r", "m", "a", "l">>,
     SOFT   |-> <<"S", "o", "f", "t">>,
     DRUM   |-> <<"D", "r", "u", "m">>]

GeneralSampleSet_from_str(s) ==
    IF \E k \in DOMAIN GeneralSampleSetWords : GeneralSampleSetWords[k] = s
    THEN Ok(CHOOSE k \in DOMAIN GeneralSampleSetWords : GeneralSampleSetWords[k] = s)
    ELSE Err([kind |-> "UnexpectedSampleSetValue", value |-> s])

\* T::from_str for the scalar types T of the field-block sections
ScalarFromStr(type, s) ==
    CASE type = "String"           -> Ok(s)
      [] type = "i32"              -> I32FromStr(s)
      [] type = "f32"              -> F32FromStr(s)
      [] type = "OsuBool"          -> OsuBool_from_str(s)
      [] type = "Gamemode"         -> Gamemode_from_str(s)
      [] type = "Countdown"        -> Countdown_from_str(s)
      [] type = "OverlayPosition"  -> OverlayPosition_from_str(s)
      [] type = "GeneralSampleSet" -> GeneralSampleSet_from_str(s)

\* T::default()
ScalarDefault(type) ==
    CASE type = "String"           -> <<>>
      [] type = "i32"              -> 0
      [] type = "f32"              -> 0
      [] type = "OsuBool"          -> FALSE
      [] type = "Gamemode"         -> "STD"
      [] type = "Countdown"        -> "NORMAL"
      [] type = "OverlayPosition"  -> "NOCHANGE"
      [] type = "GeneralSampleSet" -> "NORMAL"

\* Display of T
ScalarToString(type, v) ==
    CASE type = "String"           -> v
      [] type = "i32"              -> IntToString(v)
      [] type = "f32"              -> F32ToString(v)
      [] type = "OsuBool"          -> OsuBool_to_string(v)
      [] type = "Gamemode"         -> Gamemode_to_string(v)
      [] type = "Countdown"        -> Countdown_to_string(v)
      [] type = "OverlayPosition"  -> OverlayPositionWords[v]
      [] type = "GeneralSampleSet" -> GeneralSampleSetWords[v]

-----------------------------------------------------------------------------
(* Record-field extractor: trait SectionKeyValue (section/mod.rs:32-82) *)

\* SectionKeyValue::read_value: the text after the first ':', trimmed
read_value(pair) ==
    LET value(cut) == IF cut.some THEN Ok(Trim(cut.v[2])) ELSE Err(NotValidPair)
    IN  value(SplitOnce(pair, ":"))

\* Fault variant of get_field_name_value: the line is selected by its key,
\* the text before the first ':', instead of by containing the name
get_field_name_value_by_key(str, field_name, type) ==
    LET typed(value) ==
            IF IsErr(value) THEN value
            ELSE MapErr(ScalarFromStr(type, value.v), InvalidFormat(field_name))
        found(hits) ==
            IF hits = {} THEN Ok(ScalarDefault(type))
            ELSE typed(MapErr(read_value(str[MinOf(hits)]), InvalidFormat(field_name)))
    IN  found({i \in 1..Len(str) :
                  /\ SplitOnce(str[i], ":").some
                  /\ Trim(SplitOnce(str[i], ":").v[1]) = field_name})

\* SectionKeyValue::get_field_name_value::<T>, T given by `type`
get_field_name_value(str, field_name, type) ==
    LET typed(value) ==
            IF IsErr(value) THEN value
            ELSE MapErr(ScalarFromStr(type, value.v), InvalidFormat(field_name))
        found(hits) ==
            IF hits = {} THEN Ok(ScalarDefault(type))
            ELSE typed(MapErr(read_value(str[MinOf(hits)]), InvalidFormat(field_name)))
    IN  found({i \in 1..Len(str) : Contains(str[i], field_name)})

\* SectionKeyValue::serialize_field
serialize_field(field_name, type, value, with_space) ==
    IF value = ScalarDefault(type) THEN None
    ELSE Some(field_name \o (IF with_space THEN <<":", " ">> ELSE <<":">>)
              \o ScalarToString(type, value) \o <<"\n">>)

\* SectionKeyValue::write_field_in: the text appended to the buffer
write_field_in(field_name, type, value, with_space) ==
    LET push(line) == IF line.some THEN line.v ELSE <<>>
    IN  push(serialize_field(field_name, type, value, with_space))

\* A run of `x = Self::get_field_name_value(&s, name)?;` statements over the
\* fields `fields`: the first error is returned, else the values in order
ReadFields(str, fields) ==
    LET collect(r, failure) ==
            IF failure.some THEN failure.v ELSE Ok([i \in 1..Len(fields) |-> r[i].v])
        each(r) == collect(r, FirstFailure(r))
    IN  each([i \in 1..Len(fields) |->
                 get_field_name_value(str, fields[i].name, fields[i].type)])

\* A run of `write_field_in(&mut buf, name, &value, with_space)` statements
WriteFields(fields, values, with_space) ==
    Concat([i \in 1..Len(fields) |->
               write_field_in(fields[i].name, fields[i].type, values[i], with_space)])

\* `for x in list { buf.push_str(x); buf.push(sep) }; if !buf.is_empty() { buf.pop() }`
JoinPop(items, sep) ==
    LET pop(buf) == IF Len(buf) > 0 THEN SubSeq(buf, 1, Len(buf) - 1) ELSE buf
    IN  pop(Concat([i \in 1..Len(items) |-> items[i] \o <<sep>>]))

-----------------------------------------------------------------------------
(* The declared fields of the field-block sections, in declared order *)

GeneralFields ==
  <<
    [name |-> <<"A", "u", "d", "i", "o", "F", "i", "l", "e", "n", "a", "m", "e">>,
     type |-> "String"],
    [name |-> <<"A", "u", "d", "i", "o", "L", "e", "a", "d", "I", "n">>,
     type |-> "i32"],
    [name |-> <<"A", "u", "d", "i", "o", "H", "a", "s", "h">>,
     type |-> "String"],
    [name |-> <<"P", "r", "e", "v", "i", "e", "w", "T", "i", "m", "e">>,
     type |-> "i32"],
    [name |-> <<"C", "o", "u", "n", "t", "d", "o", "w", "n">>,
     type |-> "Countdown"],
    [name |-> <<"S", "a", "m", "p", "l", "e", "S", "e", "t">>,
     type |-> "GeneralSampleSet"],
    [name |-> <<"S", "t", "a", "c", "k", "L", "e", "n", "i", "e", "n", "c", "y">>,
     type |-> "f32"],
    [name |-> <<"M", "o", "d", "e">>,
     type |-> "Gamemode"],
    [name |-> <<"L", "e", "t", "t", "e", "r", "b", "o", "x", "I", "n", "B", "r", "e", "a", "k", "s">>,
     type |-> "OsuBool"],
    [name |-> <<"S", "t", "o", "r", "y", "F", "i", "r", "e", "I", "n", "F", "r", "o", "n", "t">>,
     type |-> "OsuBool"],
    [name |-> <<"U", "s", "e", "S", "k", "i", "n", "S", "p", "r", "i", "t", "e", "s">>,
     type |-> "OsuBool"],
    [name |-> <<"A", "l", "w", "a", "y", "s", "S", "h", "o", "w", "P", "l", "a", "y", "f", "i", "e", "l", "d">>,
     type |-> "OsuBool"],
    [name |-> <<"O", "v", "e", "r", "l", "a", "y", "P", "o", "s", "i", "t", "i", "o", "n">>,
     type |-> "OverlayPosition"],
    [name |-> <<"S", "k", "i", "n", "P", "r", "e", "f", "e", "r", "e", "n", "c", "e">>,
     type |-> "String"],
    [name |-> <<"E", "p", "i", "l", "e", "p", "s", "y", "W", "a", "r", "n", "i", "n", "g">>,
     type |-> "OsuBool"],
    [name |-> <<"C", "o", "u", "n", "t", "d", "o", "w", "n", "O", "f", "f", "s", "e", "t">>,
     type |-> "i32"],
    [name |-> <<"S", "p", "e", "c", "i", "a", "l", "S", "t", "y", "l", "e">>,
     type |-> "OsuBool"],
    [name |-> <<"W", "i", "d", "e", "s", "c", "r", "e", "e", "n", "S", "t", "o", "r", "y", "b", "o", "a", "r", "d">>,
     type |-> "OsuBool"],
    [name |-> <<"S", "a", "m", "p", "l", "e", "s", "M", "a", "t", "c", "h", "P", "l", "a", "y", "b", "a", "c", "k", "R", "a", "t", "e">>,
     type |-> "OsuBool"]
  >>

EditorFields ==
  <<
    [name |-> <<"B", "o", "o", "k", "m", "a", "r", "k", "s">>,
     type |-> "String"],
    [name |-> <<"D", "i", "s", "t", "a", "n", "c", "e", "S", "p", "a", "c", "i", "n", "g">>,
     type |-> "f32"],
    [name |-> <<"B", "e", "a", "t", "D", "i", "v", "i", "s", "o", "r">>,
     type |-> "f32"],
    [name |-> <<"G", "r", "i", "d", "S", "i", "z", "e">>,
     type |-> "i32"],
    [name |-> <<"T", "i", "m", "e", "l", "i", "n", "e", "Z", "o", "o", "m">>,
     type |-> "f32"]
  >>

MetadataFields ==
  <<
    [name |-> <<"T", "i", "t", "l", "e">>,
     type |-> "String"],
    [name |-> <<"T", "i", "t", "l", "e", "U", "n", "i", "c", "o", "d", "e">>,
     type |-> "String"],
    [name |-> <<"A", "r", "t", "i", "s", "t">>,
     type |-> "String"],
    [name |-> <<"A", "r", "t", "i", "s", "t", "U", "n", "i", "c", "o", "d", "e">>,
     type |-> "String"],
    [name |-> <<"C", "r", "e", "a", "t", "o", "r">>,
     type |-> "String"],
    [name |-> <<"V", "e", "r", "s", "i", "o", "n">>,
     type |-> "String"],
    [name |-> <<"S", "o", "u", "r", "c", "e">>,
     type |-> "String"],
    [name |-> <<"T", "a", "g", "s">>,
     type |-> "String"],
    [name |-> <<"B", "e", "a", "t", "m", "a", "p", "I", "D">>,
     type |-> "i32"],
    [name |-> <<"B", "e", "a", "t", "m", "a", "p", "S", "e", "t", "I", "D">>,
     type |-> "i32"]
  >>

DifficultyFields ==
  <<
    [name |-> <<"H", "P", "D", "r", "a", "i", "n", "R", "a", "t", "e">>,
     type |-> "f32"],
    [name |-> <<"C", "i", "r", "c", "l", "e", "S", "i", "z", "e">>,
     type |-> "f32"],
    [name |-> <<"O", "v", "e", "r", "a", "l", "l", "D", "i", "f", "f", "i", "c", "u", "l", "t", "y">>,
     type |-> "f32"],
    [name |-> <<"A", "p", "p", "r", "o", "a", "c", "h", "R", "a", "t", "e">>,
     type |-> "f32"],
    [name |-> <<"S", "l", "i", "d", "e", "r", "M", "u", "l", "t", "i", "p", "l", "i", "e", "r">>,
     type |-> "f32"],
    [name |-> <<"S", "l", "i", "d", "e", "r", "T", "i", "c", "k", "R", "a", "t", "e">>,
     type |-> "f32"]
  >>

-----------------------------------------------------------------------------
(* The field-block sections.  A section value is the tuple of its field     *)
(* values in declared order.                                               *)

\* The lines of a section: `s.trim().split("\n").map(|x| x.trim()).collect()`
SectionLines(s) == TrimmedSplit(s, "\n")

\* GeneralSection (general.rs:64-94, 96-148)
GeneralSection_from_str(s) == ReadFields(SectionLines(s), GeneralFields)

GeneralSection_to_string(section) == WriteFields(GeneralFields, section, TRUE)

\* DifficultySection (difficulty.rs:23-59)
DifficultySection_from_str(s) == ReadFields(SectionLines(s), DifficultyFields)

DifficultySection_to_string(section) == WriteFields(DifficultyFields, section, FALSE)

\* EditorSection::from_str (editor.rs:20-45): bookmarks is read as a String,
\* split at ',' and every piece parsed with `i32::from_str(x)...unwrap()`
EditorSection_from_str(s) ==
    LET build(marks, rest) ==
            IF \E i \in 1..Len(marks) : IsErr(marks[i]) THEN Panic
            ELSE IF IsErr(rest) THEN rest
            ELSE Ok(<<[i \in 1..Len(marks) |-> marks[i].v]>> \o rest.v)
        unwrap(pieces, rest) ==
            build([i \in 1..Len(pieces) |-> I32FromStr(pieces[i])], rest)
        fields(str, bookmarks) ==
            IF IsErr(bookmarks) THEN bookmarks
            ELSE unwrap(Split(bookmarks.v, ","), ReadFields(str, Tail(EditorFields)))
        lines(str) == fields(str, get_field_name_value(str, EditorFields[1].name, "String"))
    IN  lines(SectionLines(s))

\* From<EditorSection> for String (editor.rs:47-69)
EditorSection_to_string(section) ==
    write_field_in(EditorFields[1].name, "String",
                   JoinPop([i \in 1..Len(section[1]) |-> IntToString(section[1][i])], ","),
                   TRUE)
    \o WriteFields(Tail(EditorFields), Tail(section), TRUE)

\* MetadataSection::from_str (metadata.rs:35-58): tags is read as a String
\* and split at ' '
MetadataSection_from_str(s) ==
    LET build(first, tags, last) ==
            IF IsErr(first) THEN first
            ELSE IF IsErr(tags) THEN tags
            ELSE IF IsErr(last) THEN last
            ELSE Ok(first.v \o <<Split(tags.v, " ")>> \o last.v)
        lines(str) ==
            build(ReadFields(str, SubSeq(MetadataFields, 1, 7)),
                  get_field_name_value(str, MetadataFields[8].name, "String"),
                  ReadFields(str, SubSeq(MetadataFields, 9, 10)))
    IN  lines(SectionLines(s))

\* MetadataSection::to_string (metadata.rs:60-87)
MetadataSection_to_string(section) ==
    WriteFields(SubSeq(MetadataFields, 1, 7), SubSeq(section, 1, 7), FALSE)
    \o write_field_in(MetadataFields[8].name, "String", JoinPop(section[8], " "), FALSE)
    \o WriteFields(SubSeq(MetadataFields, 9, 10), SubSeq(section, 9, 10), FALSE)

-----------------------------------------------------------------------------
(* Bit flags (bitflags! structs) *)

\* Whether bit k (weight 2^k) of the byte x is set
BitSet(x, k) == (x \div (2 ^ k)) % 2 = 1

\* `flags.contains(mask)`: every bit of mask is set in flags
FlagContains(flags, mask) == \A k \in 0..7 : BitSet(mask, k) => BitSet(flags, k)

\* The set of the bits set in the byte x, and the byte of a set of bits
BitsOf(x) == {k \in 0..7 : BitSet(x, k)}

RECURSIVE FromBits(_)
FromBits(S) == IF S = {} THEN 0 ELSE LET k == MinOf(S) IN 2 ^ k + FromBits(S \ {k})

\* `a | b` and `a & b` on bytes
BitOr(a, b) == FromBits(BitsOf(a) \cup BitsOf(b))

BitAnd(a, b) == FromBits(BitsOf(a) \cap BitsOf(b))

\* `T::from_bits_truncate(x)` where `all` is the union of T's constants
FromBitsTruncate(x, all) == BitAnd(x, all)

-----------------------------------------------------------------------------
(* Sequential evaluation with `?`, `unwrap()` and indexing *)

\* `s[k]` on a Vec (k from 0): a panic when k is out of bounds
Index(s, k) == IF k < Len(s) THEN Ok(s[k + 1]) ELSE Panic

\* Apply the parser result r, replacing its error by InvalidFormat{field}
Field(r, field) == MapErr(r, InvalidFormat(field))

\* `P(s[k])`, r being the result of P on s[k]: a panic when s has no index k
At(s, k, r) == IF k < Len(s) THEN r ELSE Panic

\* `P(s[k]).map_err(|_| InvalidFormat{field: tag})`
Parsed(s, k, r, tag) == Field(At(s, k, r), tag)

\* `r.map_err(|_| ())`
UnitErr(r) == MapErr(r, <<>>)

-----------------------------------------------------------------------------
(* types::SampleSet (types.rs:47-88) *)

SampleSetNames == <<"Default", "Normal", "Soft", "Drum">>

\* SampleSet::from_str: `u8::from_str(s).unwrap()` then `try_into().unwrap()`
SampleSet_from_str(s) ==
    LET to_u8 == U8FromStr(s)
    IN  IF IsErr(to_u8) THEN Panic
        ELSE IF to_u8.v > 3 THEN Panic
        ELSE Ok(SampleSetNames[to_u8.v + 1])

SampleSet_to_string(x) ==
    <<Digit[CHOOSE i \in 1..4 : SampleSetNames[i] = x]>>

-----------------------------------------------------------------------------
(* Events (section/events.rs) *)

\* EventType::from_str (events.rs:16-29)
EventType_from_str(s) ==
    IF s \in {<<"B", "a", "c", "k", "g", "r", "o", "u", "n", "d">>, <<"0">>} THEN Ok("Background")
    ELSE IF s \in {<<"V", "i", "d", "e", "o">>, <<"1">>} THEN Ok("Video")
    ELSE IF s \in {<<"B", "r", "e", "a", "k">>, <<"2">>} THEN Ok("Break")
    ELSE Err([kind |-> "UnexpectedEventType", value |-> s])

\* str::trim_matches('"')
TrimQuotes(s) ==
    LET keep == {i \in 1..Len(s) : s[i] # "\""}
    IN  IF keep = {} THEN <<>> ELSE SubSeq(s, MinOf(keep), MaxOf(keep))

\* Event::from_str (events.rs:182-229)
Event_from_str(str) ==
    LET image(s, type) ==
            LET build(steps, failure) ==
                    IF failure.some THEN failure.v
                    ELSE Ok([start_time   |-> steps[4].v,
                             event_params |-> [type     |-> type,
                                               filename |-> TrimQuotes(steps[1].v),
                                               x_offset |-> steps[2].v,
                                               y_offset |-> steps[3].v]])
                steps == <<Index(s, 2), Parsed(s, 3, I32FromStr(s[4]), <<"3">>),
                           Parsed(s, 4, I32FromStr(s[5]), <<"4">>),
                           Parsed(s, 1, U32FromStr(s[2]), <<"1">>)>>
            IN  build(steps, FirstFailure(steps))
        break(s) ==
            LET build(steps, failure) ==
                    IF failure.some THEN failure.v
                    ELSE Ok([start_time   |-> steps[2].v,
                             event_params |-> [type |-> "Break", end_time |-> steps[1].v]])
                steps == <<Parsed(s, 2, U32FromStr(s[3]), <<"2">>),
                           Parsed(s, 1, U32FromStr(s[2]), <<"1">>)>>
            IN  build(steps, FirstFailure(steps))
        arms(s, event_type) ==
            IF ~IsOk(event_type) THEN event_type
            ELSE IF event_type.v = "Break" THEN break(s)
            ELSE image(s, event_type.v)
        line(s) == arms(s, Field(EventType_from_str(s[1]), <<"0">>))
    IN  IF StartsWith(str, <<"/", "/">>) THEN Err(CommentaryEntry)
        ELSE line(TrimmedSplit(str, ","))

\* Display of EventType (events.rs:51-59)
EventType_to_string(type) ==
    CASE type = "Background" -> <<"0">>
      [] type = "Video"      -> <<"1">>
      [] type = "Break"      -> <<"2">>

\* EventType::serialize_inner (events.rs:38-44, 90-98, 129-137, 164-168)
EventType_serialize_inner(p) ==
    IF p.type = "Break" THEN IntToString(p.end_time)
    ELSE <<"\"">> \o p.filename \o <<"\"", ",">> \o IntToString(p.x_offset)
         \o <<",">> \o IntToString(p.y_offset)

\* Event::to_string (events.rs:231-240)
Event_to_string(e) ==
    EventType_to_string(e.event_params.type) \o <<",">> \o IntToString(e.start_time)
    \o <<",">> \o EventType_serialize_inner(e.event_params)

-----------------------------------------------------------------------------
(* Timing points (section/timing_points.rs) *)

\* Effects::all(): KIAI | OMIT_BARLINE (types.rs:315-320)
EffectsAll == BitOr(1, 4)

\* TimingPoint::from_str (timing_points.rs:36-67)
TimingPoint_from_str(str) ==
    LET build(steps, failure) ==
            IF failure.some THEN failure.v
            ELSE Ok([time |-> steps[1].v, beat_length |-> steps[2].v, meter |-> steps[3].v,
                     sample_set |-> steps[4].v, sample_index |-> steps[5].v,
                     volume |-> steps[6].v, is_uninherited |-> steps[7].v,
                     effects |-> steps[8].v])
        effects(bits) ==
            IF ~IsOk(bits) THEN Panic ELSE Ok(FromBitsTruncate(bits.v, EffectsAll))
        fields(s) ==
            <<Parsed(s, 0, U32FromStr(s[1]), <<"t", "i", "m", "e">>),
              Parsed(s, 1, F32FromStr(s[2]), <<"b", "e", "a", "t", "_", "l", "e", "n", "g", "t", "h">>),
              Parsed(s, 2, U32FromStr(s[3]), <<"m", "e", "t", "e", "r">>),
              Parsed(s, 3, SampleSet_from_str(s[4]), <<"s", "a", "m", "p", "l", "e", "_", "s", "e", "t">>),
              Parsed(s, 4, U32FromStr(s[5]),
                     <<"s", "a", "m", "p", "l", "e", "_", "i", "n", "d", "e", "x">>),
              Parsed(s, 5, U8FromStr(s[6]), <<"v", "o", "l", "u", "m", "e">>),
              Parsed(s, 6, OsuBool_from_str(s[7]),
                     <<"i", "s", "_", "u", "n", "i", "n", "h", "e", "r", "i", "t", "e", "d">>),
              effects(At(s, 7, U8FromStr(s[8])))>>
        line(steps) == build(steps, FirstFailure(steps))
    IN  line(fields(TrimmedSplit(str, ",")))

\* TimingPoint::to_string (timing_points.rs:69-83)
TimingPoint_to_string(t) ==
    IntToString(t.time) \o <<",">> \o F32ToString(t.beat_length) \o <<",">>
    \o IntToString(t.meter) \o <<",">> \o SampleSet_to_string(t.sample_set) \o <<",">>
    \o IntToString(t.sample_index) \o <<",">> \o IntToString(t.volume) \o <<",">>
    \o OsuBool_to_string(t.is_uninherited) \o <<",">> \o IntToString(t.effects)

-----------------------------------------------------------------------------
(* Colours (section/colours.rs) *)

\* ColourType::from_str (colours.rs:19-33)
ColourType_from_str(s) ==
    LET Combo == <<"C", "o", "m", "b", "o">>
        id    == U8FromStr(SubSeq(s, Len(Combo) + 1, Len(s)))
    IN  IF s = <<"S", "l", "i", "d", "e", "r", "T", "r", "a", "c", "k",
                 "O", "v", "e", "r", "r", "i", "d", "e">>
        THEN Ok([type |-> "SliderTrackOverride"])
        ELSE IF s = <<"S", "l", "i", "d", "e", "r", "B", "o", "r", "d", "e", "r">>
        THEN Ok([type |-> "SliderBorder"])
        ELSE IF StartsWith(s, Combo)
        THEN (IF IsErr(id) THEN Err(<<>>) ELSE Ok([type |-> "Combo", id |-> id.v]))
        ELSE Err(<<>>)

\* ColourType::to_string (colours.rs:35-43)
ColourType_to_string(t) ==
    CASE t.type = "Combo" -> <<"C", "o", "m", "b", "o">> \o IntToString(t.id)
      [] t.type = "SliderTrackOverride" ->
            <<"S", "l", "i", "d", "e", "r", "T", "r", "a", "c", "k",
              "O", "v", "e", "r", "r", "i", "d", "e">>
      [] t.type = "SliderBorder" ->
            <<"S", "l", "i", "d", "e", "r", "B", "o", "r", "d", "e", "r">>

\* Rgb::from_str (colours.rs:55-73)
Rgb_from_str(str) ==
    LET build(steps, failure) ==
            IF failure.some THEN failure.v
            ELSE Ok([red |-> steps[1].v, green |-> steps[2].v, blue |-> steps[3].v])
        fields(s) ==
            <<Parsed(s, 0, U8FromStr(s[1]), <<"r", "e", "d">>),
              Parsed(s, 1, U8FromStr(s[2]), <<"g", "r", "e", "e", "n">>),
              Parsed(s, 2, U8FromStr(s[3]), <<"b", "l", "u", "e">>)>>
        line(steps) == build(steps, FirstFailure(steps))
    IN  line(fields(TrimmedSplit(str, ",")))

\* Rgb::to_string (colours.rs:75-79)
Rgb_to_string(c) ==
    IntToString(c.red) \o <<",">> \o IntToString(c.green) \o <<",">> \o IntToString(c.blue)

\* Colour::from_str (colours.rs:89-104)
Colour_from_str(str) ==
    LET build(colour_of, colour) ==
            IF ~IsOk(colour_of) THEN colour_of
            ELSE IF ~IsOk(colour) THEN colour
            ELSE Ok([colour_of |-> colour_of.v, colour |-> colour.v])
        line(s) == build(Parsed(s, 0, ColourType_from_str(s[1]), <<"c", "o", "l", "o", "u", "r">>),
                         Parsed(s, 1, Rgb_from_str(s[2]), <<"c", "o", "l", "o", "u", "r">>))
    IN  line(TrimmedSplit(str, ":"))

\* Colour::to_string (colours.rs:106-114)
Colour_to_string(c) ==
    ColourType_to_string(c.colour_of) \o <<" ", ":", " ">> \o Rgb_to_string(c.colour)

\* Colours::default() (colours.rs:121-129)
Colours_default ==
    [combos |-> [i \in 1..8 |-> None], slider_track_override |-> None, slider_border |-> None]

\* The loop body of Colours::from_str for the line x, from the state `colours`
\* (colours.rs:138-146); `combos[x as usize - 1]` panics unless 1 <= x <= 8
RECURSIVE Colours_loop(_, _)
Colours_loop(colours, lines) ==
    LET store(colour) ==
            IF ~IsOk(colour) THEN colour
            ELSE IF colour.v.colour_of.type = "Combo"
            THEN (IF colour.v.colour_of.id \notin 1..8 THEN Panic
                  ELSE Colours_loop(
                           [colours EXCEPT !.combos[colour.v.colour_of.id] = Some(colour.v)],
                           Tail(lines)))
            ELSE IF colour.v.colour_of.type = "SliderTrackOverride"
            THEN Colours_loop([colours EXCEPT !.slider_track_override = Some(colour.v)],
                              Tail(lines))
            ELSE Colours_loop([colours EXCEPT !.slider_border = Some(colour.v)],
                              Tail(lines))
    IN  IF lines = <<>> THEN Ok(colours) ELSE store(Colour_from_str(Head(lines)))

\* Colours::from_str (colours.rs:131-150)
Colours_from_str(s) == Colours_loop(Colours_default, TrimmedSplit(s, "\n"))

\* Colours::to_string (colours.rs:152-184)
Colours_to_string(c) ==
    LET line(o) == IF o.some THEN Colour_to_string(o.v) \o <<"\n">> ELSE <<>>
    IN  Concat([i \in 1..8 |-> line(c.combos[i])])
        \o line(c.slider_track_override) \o line(c.slider_border)

-----------------------------------------------------------------------------
(* Hit objects (section/hit_objects.rs) *)

\* SliderPoint::from_str (hit_objects.rs:14-25); its error type is ()
SliderPoint_from_str(str) ==
    LET build(x, y) ==
            IF ~IsOk(x) THEN x ELSE IF ~IsOk(y) THEN y ELSE Ok([x |-> x.v, y |-> y.v])
        point(s) == build(UnitErr(At(s, 0, I32FromStr(s[1]))), UnitErr(At(s, 1, I32FromStr(s[2]))))
    IN  point(TrimmedSplit(str, ":"))

\* SliderPoint::to_string (hit_objects.rs:27-31)
SliderPoint_to_string(p) == IntToString(p.x) \o <<":">> \o IntToString(p.y)

\* EdgeSounds::from_str (hit_objects.rs:41-67)
EdgeSounds_from_str(str) ==
    LET pair(a, b) ==
            IF IsErr(a) \/ IsErr(b) THEN Err(<<>>) ELSE Ok(<<a.v, b.v>>)
        set(set_values) ==
            IF ~set_values.some THEN Err(<<>>)
            ELSE pair(U32FromStr(set_values.v[1]), U32FromStr(set_values.v[2]))
        build(sounds, sets) ==
            IF \E i \in 1..Len(sounds) : IsErr(sounds[i]) THEN Err(<<>>)
            ELSE IF \E i \in 1..Len(sets) : IsErr(sets[i]) THEN Err(<<>>)
            ELSE Ok([sounds |-> [i \in 1..Len(sounds) |-> sounds[i].v],
                     sets   |-> [i \in 1..Len(sets) |-> sets[i].v]])
        each(sounds, sets) ==
            build([i \in 1..Len(sounds) |-> U32FromStr(sounds[i])],
                  [i \in 1..Len(sets) |-> set(SplitOnce(sets[i], ":"))])
        halves(s) ==
            IF ~s.some THEN Err(<<>>) ELSE each(Split(s.v[1], "|"), Split(s.v[2], "|"))
    IN  halves(SplitOnce(Trim(str), ","))

\* `buf.pop()`: the buffer without its last character, if it has one
Pop(buf) == IF buf = <<>> THEN buf ELSE SubSeq(buf, 1, Len(buf) - 1)

\* Fault variant of EdgeSounds::to_string: the trailing '|' of each run is kept
EdgeSounds_to_string_unpopped(e) ==
    Concat([i \in 1..Len(e.sounds) |-> IntToString(e.sounds[i]) \o <<"|">>])
    \o <<",">>
    \o Concat([i \in 1..Len(e.sets) |->
                  IntToString(e.sets[i][1]) \o <<":">> \o IntToString(e.sets[i][2]) \o <<"|">>])

\* EdgeSounds::to_string (hit_objects.rs:69-91)
EdgeSounds_to_string(e) ==
    LET sounds == Concat([i \in 1..Len(e.sounds) |-> IntToString(e.sounds[i]) \o <<"|">>])
        sets   == Concat([i \in 1..Len(e.sets) |->
                             IntToString(e.sets[i][1]) \o <<":">>
                             \o IntToString(e.sets[i][2]) \o <<"|">>])
    IN  Pop(Pop(sounds) \o <<",">> \o sets)

\* SliderType: TryFrom<char>, FromStr, ToString (hit_objects.rs:104-142)
SliderTypeChars ==
    [Bezier |-> "B", CentripetalCatmullRom |-> "C", Linear |-> "L", PerfectCircle |-> "P"]

SliderType_from_str(s) ==
    IF Len(s) = 1 /\ \E k \in DOMAIN SliderTypeChars : SliderTypeChars[k] = s[1]
    THEN Ok(CHOOSE k \in DOMAIN SliderTypeChars : SliderTypeChars[k] = s[1])
    ELSE Err(<<>>)

SliderType_to_string(t) == <<SliderTypeChars[t]>>

\* HitSample::default() (hit_objects.rs:146-153)
HitSample_default ==
    [normal_set |-> "Default", additional_set |-> "Default", index |-> 0, volume |-> 0,
     filename |-> <<>>]

\* HitSample::from_str (hit_objects.rs:155-177)
HitSample_from_str(str) ==
    LET build(steps, failure) ==
            IF failure.some THEN failure.v
            ELSE Ok([normal_set |-> steps[1].v, additional_set |-> steps[2].v,
                     index |-> steps[3].v, volume |-> steps[4].v, filename |-> steps[5].v])
        fields(s) ==
            <<Parsed(s, 0, SampleSet_from_str(s[1]), <<"n", "o", "r", "m", "a", "l", "_", "s", "e", "t">>),
              Parsed(s, 1, SampleSet_from_str(s[2]),
                     <<"a", "d", "d", "i", "t", "i", "o", "n", "a", "l", "_", "s", "e", "t">>),
              Parsed(s, 2, U32FromStr(s[3]), <<"i", "n", "d", "e", "x">>),
              Parsed(s, 3, U8FromStr(s[4]), <<"v", "o", "l", "u", "m", "e">>),
              Index(s, 4)>>
        line(steps) == build(steps, FirstFailure(steps))
    IN  line(fields(TrimmedSplit(str, ":")))

\* HitSample::to_string (hit_objects.rs:179-190)
HitSample_to_string(h) ==
    SampleSet_to_string(h.normal_set) \o <<":">> \o SampleSet_to_string(h.additional_set)
    \o <<":">> \o IntToString(h.index) \o <<":">> \o IntToString(h.volume)
    \o <<":">> \o h.filename

\* The constants of HitObjectTypeFlag (hit_objects.rs:243-255)
HitObjectTypeFlag ==
    [HIT_CIRCLE |-> 1, SLIDER |-> 2, SPINNER |-> 8, MANIA_HOLD |-> 128, NEW_COMBO |-> 4,
     SKIP_ONE |-> BitOr(16, 4), SKIP_TWO |-> BitOr(32, 4), SKIP_FOUR |-> BitOr(64, 4)]

\* HitObjectTypeFlag::all()
HitObjectTypeFlagAll ==
    FromBits(UNION {BitsOf(HitObjectTypeFlag[k]) : k \in DOMAIN HitObjectTypeFlag})

\* HitSoundFlag::all(): NORMAL | WHISTLE | FINISH | CLAP (hit_objects.rs:270-277)
HitSoundFlagAll == FromBits({0, 1, 2, 3})

\* Fault variant of the shape decoding: flags without a shape bit fall back
\* to the hit circle
HitObjectType_try_from_defaulted(value) ==
    IF FlagContains(value, HitObjectTypeFlag.SLIDER) THEN Ok("Slider")
    ELSE IF FlagContains(value, HitObjectTypeFlag.SPINNER) THEN Ok("Spinner")
    ELSE IF FlagContains(value, HitObjectTypeFlag.MANIA_HOLD) THEN Ok("ManiaHold")
    ELSE Ok("HitCircle")

\* Fault variant of the shape decoding: the arms are tried in the opposite
\* order
HitObjectType_try_from_reversed(value) ==
    IF FlagContains(value, HitObjectTypeFlag.MANIA_HOLD) THEN Ok("ManiaHold")
    ELSE IF FlagContains(value, HitObjectTypeFlag.SPINNER) THEN Ok("Spinner")
    ELSE IF FlagContains(value, HitObjectTypeFlag.SLIDER) THEN Ok("Slider")
    ELSE IF FlagContains(value, HitObjectTypeFlag.HIT_CIRCLE) THEN Ok("HitCircle")
    ELSE Err(<<>>)

\* TryFrom<HitObjectTypeFlag> for HitObjectType (hit_objects.rs:221-239):
\* the shape only; the parameters are filled in by HitObject::from_str
HitObjectType_try_from(value) ==
    IF FlagContains(value, HitObjectTypeFlag.HIT_CIRCLE) THEN Ok("HitCircle")
    ELSE IF FlagContains(value, HitObjectTypeFlag.SLIDER) THEN Ok("Slider")
    ELSE IF FlagContains(value, HitObjectTypeFlag.SPINNER) THEN Ok("Spinner")
    ELSE IF FlagContains(value, HitObjectTypeFlag.MANIA_HOLD) THEN Ok("ManiaHold")
    ELSE Err(<<>>)

\* From<&HitObjectType> for HitObjectTypeFlag (hit_objects.rs:257-266)
HitObjectTypeFlag_from(type) ==
    CASE type = "HitCircle" -> HitObjectTypeFlag.HIT_CIRCLE
      [] type = "Slider"    -> HitObjectTypeFlag.SLIDER
      [] type = "Spinner"   -> HitObjectTypeFlag.SPINNER
      [] type = "ManiaHold" -> HitObjectTypeFlag.MANIA_HOLD

\* `.map(SliderPoint::from_str).collect::<Result<Vec<_>, _>>()` over the
\* pieces after the slider type (hit_objects.rs:330-334)
SliderParams_curve_points(type_and_points) ==
    LET collect(points, failure) ==
            IF failure.some THEN failure.v
            ELSE Ok([i \in 1..Len(points) |-> points[i].v])
        curve(points) == collect(points, FirstFailure(points))
    IN  curve([i \in 1..(Len(type_and_points) - 1) |->
                  UnitErr(SliderPoint_from_str(type_and_points[i + 1]))])

\* The `?` steps of SliderParams::from_str in evaluation order
SliderParams_steps(s, type_and_points) ==
    <<UnitErr(SliderType_from_str(type_and_points[1])),
      SliderParams_curve_points(type_and_points),
      UnitErr(At(s, 1, U32FromStr(s[2]))), UnitErr(At(s, 2, F32FromStr(s[3]))),
      UnitErr(At(s, 3, EdgeSounds_from_str(s[4])))>>

\* The decoding of the trimmed pieces of the parameters
SliderParams_pieces(s) ==
    LET build(steps, failure) ==
            IF failure.some THEN failure.v
            ELSE Ok([type |-> "Slider", slider_type |-> steps[1].v,
                     curve_points |-> steps[2].v, slides |-> steps[3].v,
                     length |-> steps[4].v, edge_sounds |-> steps[5].v])
        line(steps) == build(steps, FirstFailure(steps))
    IN  line(SliderParams_steps(s, Split(s[1], "|")))

\* SliderParams::from_str (hit_objects.rs:321-344); its error type is ()
SliderParams_from_str(str) == SliderParams_pieces(TrimAll(SplitN(4, Trim(str), ",")))

\* SliderParams::serialize_curve_points and to_string (hit_objects.rs:297-308, 346-357)
SliderParams_to_string(p) ==
    SliderType_to_string(p.slider_type)
    \o Concat([i \in 1..Len(p.curve_points) |->
                  <<"|">> \o SliderPoint_to_string(p.curve_points[i])])
    \o <<",">> \o IntToString(p.slides) \o <<",">> \o F32ToString(p.length)
    \o <<",">> \o EdgeSounds_to_string(p.edge_sounds)

\* SpinnerParams / ManiaHoldParams ::from_str (hit_objects.rs:377-385, 411-419)
EndTime_from_str(type, s) ==
    LET build(end_time) ==
            IF IsErr(end_time) THEN Err(<<>>) ELSE Ok([type |-> type, end_time |-> end_time.v])
    IN  build(U32FromStr(s))

\* The parameters of a freshly decoded shape: HitCircle carries none
HitCircleParams == [type |-> "HitCircle"]

\* `s.split_inclusive(",").collect()`
SplitInclusive(s, c) ==
    LET p    == Split(s, c)
        n    == Len(p)
        last == IF p[n] = <<>> THEN <<>> ELSE <<p[n]>>
    IN  [i \in 1..(n - 1) |-> p[i] \o <<c>>] \o last

\* Fault variant of the combo_skip decoding: the skip bits are counted
\* whether or not the new-combo bit is set
DecodeComboSkip_raw(object_type) ==
    (IF BitSet(object_type, 4) THEN 1 ELSE 0) + (IF BitSet(object_type, 5) THEN 2 ELSE 0)
    + (IF BitSet(object_type, 6) THEN 4 ELSE 0)

\* The combo_skip count decoded from the type flags (hit_objects.rs:459-469)
DecodeComboSkip(object_type) ==
    (IF FlagContains(object_type, HitObjectTypeFlag.SKIP_ONE) THEN 1 ELSE 0)
    + (IF FlagContains(object_type, HitObjectTypeFlag.SKIP_TWO) THEN 2 ELSE 0)
    + (IF FlagContains(object_type, HitObjectTypeFlag.SKIP_FOUR) THEN 4 ELSE 0)

\* The field names HitObject::from_str reports for the tail of a line
ObjectParamsField == <<"o", "b", "j", "e", "c", "t", "_", "p", "a", "r", "a", "m", "s">>

HitSampleField == <<"h", "i", "t", "_", "s", "a", "m", "p", "l", "e">>

\* The texts the match arms cut out of `split[5]` (hit_objects.rs:493-541):
\* <<the text of the shape's parameters, the text of the hit sample>>
HitObject_texts(shape, rest) ==
    CASE shape = "HitCircle" -> Some(<<<<>>, rest>>)
      [] shape = "Slider" ->
            Some(<<Pop(Concat(Pop(SplitInclusive(rest, ",")))), Last(Split(rest, ","))>>)
      [] shape = "Spinner" -> SplitOnce(rest, ",")
      [] shape = "ManiaHold" -> SplitOnce(rest, ":")

\* The parameters of the shape, decoded from their text (hit_objects.rs:512, 531, 546)
HitObject_params(shape, text) ==
    CASE shape = "HitCircle" -> Ok(HitCircleParams)
      [] shape = "Slider" -> Field(SliderParams_from_str(text), ObjectParamsField)
      [] shape \in {"Spinner", "ManiaHold"} ->
            Field(EndTime_from_str(shape, text), ObjectParamsField)

\* The two halves of the tail, the parameters before the hit sample
HitObject_halves(shape, splitted) ==
    LET both(params, hit_sample) ==
            IF ~IsOk(params) THEN params
            ELSE IF ~IsOk(hit_sample) THEN hit_sample
            ELSE Ok(<<params.v, hit_sample.v>>)
    IN  IF ~splitted.some
        THEN Err(InvalidFormat(ObjectParamsField \o <<"/">> \o HitSampleField))
        ELSE both(HitObject_params(shape, splitted.v[1]),
                  Field(HitSample_from_str(splitted.v[2]), HitSampleField))

\* Fault variant of the tail: the HitCircle arm indexes `split[5]` as the
\* other arms do
HitObject_tail_indexed(shape, split) ==
    IF Len(split) >= 6 THEN HitObject_halves(shape, HitObject_texts(shape, split[6]))
    ELSE Panic

\* The shape-dependent tail of HitObject::from_str (hit_objects.rs:491-558):
\* <<object_params, hit_sample>> or the failure. Only the HitCircle arm reads
\* `split.get(5)`; the others index `split[5]`
HitObject_tail(shape, split) ==
    IF Len(split) >= 6 THEN HitObject_halves(shape, HitObject_texts(shape, split[6]))
    ELSE IF shape = "HitCircle" THEN Ok(<<HitCircleParams, HitSample_default>>)
    ELSE Panic

\* `u8::from_str(split[3]).map_err(..)?` (hit_objects.rs:448-453)
HitObject_type_bits(split) ==
    Parsed(split, 3, U8FromStr(split[4]), <<"o", "b", "j", "e", "c", "t", "_", "t", "y", "p", "e">>)

\* `HitObjectTypeFlag::from_bits_truncate(..)` of the parsed bits
HitObject_type_flags(bits) ==
    IF IsOk(bits) THEN FromBitsTruncate(bits.v, HitObjectTypeFlagAll) ELSE 0

\* The `?` steps before the match, in evaluation order (hit_objects.rs:448-489):
\* object_type, x, y, time, object_params (the shape), hit_sound
HitObject_steps(split, bits) ==
    <<bits,
      Parsed(split, 0, I32FromStr(split[1]), <<"x">>),
      Parsed(split, 1, I32FromStr(split[2]), <<"y">>),
      Parsed(split, 2, U32FromStr(split[3]), <<"t", "i", "m", "e">>),
      IF ~IsOk(bits) THEN bits
      ELSE Field(HitObjectType_try_from(HitObject_type_flags(bits)), ObjectParamsField),
      Parsed(split, 4, U8FromStr(split[5]), <<"h", "i", "t", "_", "s", "o", "u", "n", "d">>)>>

\* The hit object of a line whose steps and tail are given, or the first failure
HitObject_build(steps, failure, tail) ==
    IF failure.some THEN failure.v
    ELSE IF ~IsOk(tail) THEN tail
    ELSE Ok([x |-> steps[2].v, y |-> steps[3].v, time |-> steps[4].v,
             object_params |-> tail.v[1],
             new_combo |-> FlagContains(HitObject_type_flags(steps[1]),
                                        HitObjectTypeFlag.NEW_COMBO),
             combo_skip |-> DecodeComboSkip(HitObject_type_flags(steps[1])),
             hit_sound |-> FromBitsTruncate(steps[6].v, HitSoundFlagAll),
             hit_sample |-> tail.v[2]])

\* The decoding of the pieces of a line
HitObject_line(split, steps) ==
    HitObject_build(steps, FirstFailure(steps), HitObject_tail(steps[5].v, split))

\* The pieces of a line: `s.trim().splitn(6, ",").map(|x| x.trim()).collect()`
HitObject_split(s) == TrimAll(SplitN(6, Trim(s), ","))

\* The decoding of the trimmed pieces of a line
HitObject_pieces(split) ==
    HitObject_line(split, HitObject_steps(split, HitObject_type_bits(split)))

\* HitObject::from_str (hit_objects.rs:441-560)
HitObject_from_str(s) == HitObject_pieces(HitObject_split(s))

\* The type flags written by HitObject::to_string (hit_objects.rs:563-577).
\* `self.combo_skip & (1 << k) == 1` compares the masked value with 1
EncodeTypeFlags(o) ==
    LET base  == HitObjectTypeFlag_from(o.object_params.type)
        combo == IF o.new_combo THEN BitOr(base, HitObjectTypeFlag.NEW_COMBO) ELSE base
        one   == IF BitAnd(o.combo_skip, 1) = 1
                 THEN BitOr(combo, HitObjectTypeFlag.SKIP_ONE) ELSE combo
        two   == IF BitAnd(o.combo_skip, 2) = 1
                 THEN BitOr(one, HitObjectTypeFlag.SKIP_TWO) ELSE one
        four  == IF BitAnd(o.combo_skip, 4) = 1
                 THEN BitOr(two, HitObjectTypeFlag.SKIP_FOUR) ELSE two
    IN  four

\* HitObject::to_string (hit_objects.rs:562-604)
HitObject_to_string(o) ==
    LET p == o.object_params
    IN  IntToString(o.x) \o <<",">> \o IntToString(o.y) \o <<",">> \o IntToString(o.time)
        \o <<",">> \o IntToString(EncodeTypeFlags(o)) \o <<",">> \o IntToString(o.hit_sound)
        \o <<",">>
        \o (CASE p.type = "Slider" -> SliderParams_to_string(p) \o <<",">>
              [] p.type \in {"Spinner", "ManiaHold"} -> IntToString(p.end_time) \o <<",">>
              [] OTHER -> <<>>)
        \o HitSample_to_string(o.hit_sample)

-----------------------------------------------------------------------------
(* Delimited list codec: CommaListOf<T> (section/mod.rs:102-160) *)

\* T::parse for the element types of the crate's lists
Element_parse(T, element) ==
    CASE T = "Event"       -> Event_from_str(element)
      [] T = "TimingPoint" -> TimingPoint_from_str(element)
      [] T = "HitObject"   -> HitObject_from_str(element)

\* T::serialize
Element_serialize(T, x) ==
    CASE T = "Event"       -> Event_to_string(x)
      [] T = "TimingPoint" -> TimingPoint_to_string(x)
      [] T = "HitObject"   -> HitObject_to_string(x)

\* Fault variant of Skipped: a loop that drops every error and goes on
Skipped_any(res) == IsErr(res)

\* Fault variant of Skipped: a loop without the two skip arms
Skipped_never(res) == FALSE

\* Whether the list loop drops the element result `res` and goes on
Skipped(res) == IsErr(res) /\ res.e \in {CommentaryEntry, StoryboardEntry}

\* `T::parse(element)` for each element of the loop of mod.rs:132-140
Elements_parse(T, s) == [i \in 1..Len(s) |-> Element_parse(T, s[i])]

\* CommaListOf::<T>::from_str (mod.rs:126-145)
CommaListOf_from_str(T, str) ==
    LET values(kept) == [i \in 1..Len(kept) |-> kept[i].v]
        loop(res, stop) ==
            IF stop # {} THEN res[MinOf(stop)] ELSE Ok(values(SelectSeq(res, IsOk)))
        elements(res) ==
            loop(res, {i \in 1..Len(res) : ~IsOk(res[i]) /\ ~Skipped(res[i])})
    IN  elements(Elements_parse(T, TrimmedSplit(str, "\n")))

\* CommaListOf::<T>::to_string (mod.rs:147-158)
CommaListOf_to_string(T, list) ==
    Concat([i \in 1..Len(list) |-> Element_serialize(T, list[i]) \o <<"\n">>])

-----------------------------------------------------------------------------
(* The document: BeatmapLevel (lib.rs) *)

\* The section headers and whether they are mandatory, in declaration order
\* (lib.rs:83-92)
sections == <<
    [name |-> <<"[", "G", "e", "n", "e", "r", "a", "l", "]">>,
     mandatory |-> TRUE],
    [name |-> <<"[", "E", "d", "i", "t", "o", "r", "]">>,
     mandatory |-> TRUE],
    [name |-> <<"[", "M", "e", "t", "a", "d", "a", "t", "a", "]">>,
     mandatory |-> TRUE],
    [name |-> <<"[", "D", "i", "f", "f", "i", "c", "u", "l", "t", "y", "]">>,
     mandatory |-> TRUE],
    [name |-> <<"[", "E", "v", "e", "n", "t", "s", "]">>,
     mandatory |-> TRUE],
    [name |-> <<"[", "T", "i", "m", "i", "n", "g", "P", "o", "i", "n", "t", "s", "]">>,
     mandatory |-> FALSE],
    [name |-> <<"[", "C", "o", "l", "o", "u", "r", "s", "]">>,
     mandatory |-> FALSE],
    [name |-> <<"[", "H", "i", "t", "O", "b", "j", "e", "c", "t", "s", "]">>,
     mandatory |-> TRUE]>>

\* `s.find(section_name)` for the i-th declared header
HeaderIndex(s, i) == Find(s, sections[i].name)

\* The declared positions of the mandatory headers that `s` lacks
MissingMandatory(s) ==
    {i \in 1..Len(sections) : sections[i].mandatory /\ ~HeaderIndex(s, i).some}

\* Fault variant of ReportedMissing: a scan that collects the missing headers
\* and reports the last one
ReportedMissing_last(s) == sections[MaxOf(MissingMandatory(s))].name

\* The header the scan reports when a mandatory one is missing: the loop
\* returns at the first it does not find (lib.rs:100-106)
ReportedMissing(s) == sections[MinOf(MissingMandatory(s))].name

\* Fault variant of SectionRange: the range ends at the next declared header,
\* and at the end of the text when that header is absent
SectionRange_declared(s, i) ==
    [start |-> HeaderIndex(s, i).v,
     end   |-> IF i < Len(sections) /\ HeaderIndex(s, i + 1).some
               THEN HeaderIndex(s, i + 1).v ELSE Len(s)]

\* The byte range the scan gives the i-th header when found: from the header to
\* the next found header in declaration order, or to the end (lib.rs:114-130)
SectionRange(s, i) ==
    LET later == {j \in (i + 1)..Len(sections) : HeaderIndex(s, j).some}
    IN  [start |-> HeaderIndex(s, i).v,
         end   |-> IF later = {} THEN Len(s) ELSE HeaderIndex(s, MinOf(later)).v]

\* What the scan records for an optional header it does not find
\* (lib.rs:107-112): the section is absent
AbsentSection == None

\* `s[range].strip_prefix(&section.name).unwrap().trim()` (lib.rs:133-139):
\* slicing panics when the range starts after its end
SectionString(s, i) ==
    LET slice(range) ==
            IF range.start > range.end THEN Panic
            ELSE Ok(Some(Trim(SubSeq(s, range.start + 1 + Len(sections[i].name),
                                     range.end))))
    IN  IF ~HeaderIndex(s, i).some THEN Ok(AbsentSection) ELSE slice(SectionRange(s, i))

\* The section types: the field blocks and the lists, named by their element type
KVCodecs == {"GeneralSection", "EditorSection", "MetadataSection", "DifficultySection"}

ListCodecs == {"Event", "TimingPoint", "HitObject"}

\* Section::parse and Section::serialize (mod.rs:21-26) for the section type T
Section_parse(T, str) ==
    CASE T \in ListCodecs        -> CommaListOf_from_str(T, str)
      [] T = "Colours"           -> Colours_from_str(str)
      [] T = "GeneralSection"    -> GeneralSection_from_str(str)
      [] T = "EditorSection"     -> EditorSection_from_str(str)
      [] T = "MetadataSection"   -> MetadataSection_from_str(str)
      [] T = "DifficultySection" -> DifficultySection_from_str(str)

Section_serialize(T, v) ==
    CASE T \in ListCodecs        -> CommaListOf_to_string(T, v)
      [] T = "Colours"           -> Colours_to_string(v)
      [] T = "GeneralSection"    -> GeneralSection_to_string(v)
      [] T = "EditorSection"     -> EditorSection_to_string(v)
      [] T = "MetadataSection"   -> MetadataSection_to_string(v)
      [] T = "DifficultySection" -> DifficultySection_to_string(v)

\* The types of the fields of BeatmapLevel, in declaration order (lib.rs:27-36);
\* a list is named by the type of its elements
SectionTypes ==
    <<"GeneralSection", "EditorSection", "MetadataSection", "DifficultySection",
      "Event", "TimingPoint", "Colours", "HitObject">>

\* Fault variant of SectionParse: every section is unwrapped as if mandatory,
\* and an absent one is reported
SectionParse_required(i, recorded) ==
    IF recorded.some THEN Section_parse(SectionTypes[i], recorded.v)
    ELSE Err(SectionNotFound(sections[i].name))

\* The parse of the i-th section from what the scan recorded for it
\* (lib.rs:141-168): an absent optional section takes its empty value, and
\* `.unwrap()` panics on an absent mandatory one
SectionParse(i, recorded) ==
    IF recorded.some THEN Section_parse(SectionTypes[i], recorded.v)
    ELSE IF i = 6 THEN Ok(<<>>)
    ELSE IF i = 7 THEN Ok(Colours_default)
    ELSE Panic

\* The results of the section parsers on the text `s`, in declaration order
SectionResults(s) == [i \in 1..Len(sections) |-> SectionParse(i, SectionString(s, i).v)]

\* Fault variant of BuildDocument: a best-effort document in which a section
\* that failed is left empty
BuildDocument_partial(results) ==
    LET field(r) == IF IsOk(r) THEN r.v ELSE <<>>
    IN  Ok([general |-> field(results[1]), editor |-> field(results[2]),
            metadata |-> field(results[3]), difficulty |-> field(results[4]),
            events |-> field(results[5]), timing_points |-> field(results[6]),
            colours |-> field(results[7]), hit_objects |-> field(results[8])])

\* The struct literal of lib.rs:141-168: the fields are evaluated in order and
\* the first `?` that sees an error returns it
BuildDocument(results) ==
    LET build(failure) ==
            IF failure.some THEN failure.v
            ELSE Ok([general |-> results[1].v, editor |-> results[2].v,
                     metadata |-> results[3].v, difficulty |-> results[4].v,
                     events |-> results[5].v, timing_points |-> results[6].v,
                     colours |-> results[7].v, hit_objects |-> results[8].v])
    IN  build(FirstFailure(results))

\* Fault variant of BeatmapLevel::from_str: the presence of each header is
\* checked when its section is about to be parsed, after the sections before it
BeatmapLevel_from_str_interleaved(s) ==
    IF \E i \in 1..Len(sections) : IsPanic(SectionString(s, i)) THEN Panic
    ELSE BuildDocument([i \in 1..Len(sections) |->
                           IF i \in MissingMandatory(s)
                           THEN Err(SectionNotFound(sections[i].name))
                           ELSE SectionParse(i, SectionString(s, i).v)])

\* BeatmapLevel::from_str (lib.rs:77-170)
BeatmapLevel_from_str(s) ==
    IF MissingMandatory(s) # {} THEN Err(SectionNotFound(ReportedMissing(s)))
    ELSE IF \E i \in 1..Len(sections) : IsPanic(SectionString(s, i)) THEN Panic
    ELSE BuildDocument(SectionResults(s))

\* The fields of the document d in declaration order
SectionFields(d) ==
    <<d.general, d.editor, d.metadata, d.difficulty, d.events, d.timing_points,
      d.colours, d.hit_objects>>

\* BeatmapLevel::to_string (lib.rs:172-195)
BeatmapLevel_to_string(d) ==
    <<"o", "s", "u", " ", "f", "i", "l", "e", " ", "f", "o", "r", "m", "a", "t", " ", "v", "1", "4", "\n">>
    \o Concat([i \in 1..Len(sections) |->
                  <<"\n">> \o sections[i].name \o <<"\n">>
                  \o Section_serialize(SectionTypes[i], SectionFields(d)[i])])
-----------------------------------------------------------------------------
(* The codecs as the caller sees them: `X::from_str(s)` and `x.to_string()` *)

\* The scalar types whose codecs the caller uses on their own (types.rs)
ScalarCodecs == {"OsuBool", "Gamemode", "Countdown"}

\* One line of the [HitObjects] list: `HitObject::parse` / `serialize`
ElementCodecs == {"HitObjectLine"}

from_str(c, s) ==
    IF c = "BeatmapLevel" THEN BeatmapLevel_from_str(s)
    ELSE IF c \in ScalarCodecs THEN ScalarFromStr(c, s)
    ELSE IF c \in ElementCodecs THEN Element_parse("HitObject", s)
    ELSE IF c = "EdgeSounds" THEN EdgeSounds_from_str(s)
    ELSE Section_parse(c, s)

to_string(c, v) ==
    IF c = "BeatmapLevel" THEN BeatmapLevel_to_string(v)
    ELSE IF c \in ScalarCodecs THEN ScalarToString(c, v)
    ELSE IF c \in ElementCodecs THEN Element_serialize("HitObject", v)
    ELSE IF c = "EdgeSounds" THEN EdgeSounds_to_string(v)
    ELSE Section_serialize(c, v)

Unset == [tag |-> "Unset"]

\* The caller parses a text
Parse ==
    /\ pc = "text"
    /\ val' = from_str(codec, src.v)
    /\ pc' = IF IsOk(val') THEN "value" ELSE "failed"
    /\ UNCHANGED <<codec, src, out, back, out2>>

\* The caller serializes the value it holds
Serialize ==
    /\ pc = "value"
    /\ out' = to_string(codec, val.v)
    /\ pc' = "out"
    /\ UNCHANGED <<codec, src, val, back, out2>>

\* The caller parses the text it has just written
Reparse ==
    /\ pc = "out"
    /\ back' = from_str(codec, out)
    /\ pc' = IF IsOk(back') THEN "back" ELSE "failed"
    /\ UNCHANGED <<codec, src, val, out, out2>>

\* The caller serializes the value read back
Reserialize ==
    /\ pc = "back"
    /\ out2' = to_string(codec, back.v)
    /\ pc' = "done"
    /\ UNCHANGED <<codec, src, val, out, back>>

Next == Parse \/ Serialize \/ Reparse \/ Reserialize

\* A run that starts from the text t
StartFromText(c, t) ==
    /\ codec = c /\ pc = "text" /\ src = Some(t)
    /\ val = Unset /\ out = <<>> /\ back = Unset /\ out2 = <<>>

\* A run that starts from the value v the caller constructed
StartFromValue(c, v) ==
    /\ codec = c /\ pc = "value" /\ src = None
    /\ val = Ok(v) /\ out = <<>> /\ back = Unset /\ out2 = <<>>

-----------------------------------------------------------------------------
(* Sample texts and values of the field-block runs *)

GeneralLines ==
  <<
    <<"A", "u", "d", "i", "o", "F", "i", "l", "e", "n", "a", "m", "e", ":", " ", "a", ".", "m", "p", "3">>,
    <<"A", "u", "d", "i", "o", "L", "e", "a", "d", "I", "n", ":", " ", "5">>,
    <<"P", "r", "e", "v", "i", "e", "w", "T", "i", "m", "e", ":", " ", "-", "1">>,
    <<"C", "o", "u", "n", "t", "d", "o", "w", "n", ":", " ", "0">>,
    <<"C", "o", "u", "n", "t", "d", "o", "w", "n", "O", "f", "f", "s", "e", "t", ":", " ", "2">>,
    <<"S", "a", "m", "p", "l", "e", "S", "e", "t", ":", " ", "S", "o", "f", "t">>,
    <<"S", "t", "a", "c", "k", "L", "e", "n", "i", "e", "n", "c", "y", ":", " ", "0", ".", "7">>,
    <<"S", "t", "a", "c", "k", "L", "e", "n", "i", "e", "n", "c", "y", ":", " ", "x">>,
    <<"M", "o", "d", "e", ":", " ", "3">>,
    <<"M", "o", "d", "e", ":", " ", "a", "b", "c">>,
    <<"M", "o", "d", "e", ":", " ", "7">>,
    <<"M", "o", "d", "e", " ", "3">>,
    <<"L", "e", "t", "t", "e", "r", "b", "o", "x", "I", "n", "B", "r", "e", "a", "k", "s", ":", " ", "1">>,
    <<"L", "e", "t", "t", "e", "r", "b", "o", "x", "I", "n", "B", "r", "e", "a", "k", "s", ":", " ", "y", "e", "s">>,
    <<"O", "v", "e", "r", "l", "a", "y", "P", "o", "s", "i", "t", "i", "o", "n", ":", " ", "A", "b", "o", "v", "e">>
  >>

EditorLines ==
  <<
    <<"B", "o", "o", "k", "m", "a", "r", "k", "s", ":", " ", "1", "2", ",", "3", "4">>,
    <<"B", "o", "o", "k", "m", "a", "r", "k", "s", ":", " ", "a", "b", "c">>,
    <<"D", "i", "s", "t", "a", "n", "c", "e", "S", "p", "a", "c", "i", "n", "g", ":", " ", "0", ".", "5">>,
    <<"B", "e", "a", "t", "D", "i", "v", "i", "s", "o", "r", ":", " ", "4">>,
    <<"G", "r", "i", "d", "S", "i", "z", "e", ":", " ", "3", "2">>,
    <<"G", "r", "i", "d", "S", "i", "z", "e", ":", " ", "x">>,
    <<"T", "i", "m", "e", "l", "i", "n", "e", "Z", "o", "o", "m", ":", " ", "1", ".", "6">>
  >>

MetadataLines ==
  <<
    <<"T", "i", "t", "l", "e", ":", "M", "a", "r", "b", "l", "e", " ", "S", "o", "d", "a">>,
    <<"T", "i", "t", "l", "e", "U", "n", "i", "c", "o", "d", "e", ":", "S", "o", "d", "a">>,
    <<"A", "r", "t", "i", "s", "t", ":", "M", "e">>,
    <<"C", "r", "e", "a", "t", "o", "r", ":", "L", "e", "n">>,
    <<"T", "a", "g", "s", ":", "a", " ", "b">>,
    <<"B", "e", "a", "t", "m", "a", "p", "I", "D", ":", "1", "2">>,
    <<"B", "e", "a", "t", "m", "a", "p", "I", "D", ":", "x">>,
    <<"B", "e", "a", "t", "m", "a", "p", "S", "e", "t", "I", "D", ":", "3", "4">>
  >>

DifficultyLines ==
  <<
    <<"H", "P", "D", "r", "a", "i", "n", "R", "a", "t", "e", ":", "5">>,
    <<"C", "i", "r", "c", "l", "e", "S", "i", "z", "e", ":", "4">>,
    <<"C", "i", "r", "c", "l", "e", "S", "i", "z", "e", ":", "a", "b", "c">>,
    <<"O", "v", "e", "r", "a", "l", "l", "D", "i", "f", "f", "i", "c", "u", "l", "t", "y", ":", "6">>,
    <<"A", "p", "p", "r", "o", "a", "c", "h", "R", "a", "t", "e", ":", "8", ".", "5">>,
    <<"S", "l", "i", "d", "e", "r", "M", "u", "l", "t", "i", "p", "l", "i", "e", "r", ":", "1", ".", "5">>,
    <<"S", "l", "i", "d", "e", "r", "T", "i", "c", "k", "R", "a", "t", "e", ":", " ", "1">>
  >>

GeneralSamples ==
  <<
    <<"a", ".", "m", "p", "3">>,
    5,
    <<"h">>,
    -1,
    "NONE",
    "SOFT",
    700,
    "MANIA",
    TRUE,
    TRUE,
    TRUE,
    TRUE,
    "ABOVE",
    <<"s">>,
    TRUE,
    2,
    TRUE,
    TRUE,
    TRUE
  >>

EditorSamples ==
  <<
    <<12, 34>>,
    500,
    4000,
    32,
    1600
  >>

MetadataSamples ==
  <<
    <<"M", "a", "r", "b", "l", "e", " ", "S", "o", "d", "a">>,
    <<"S", "o", "d", "a">>,
    <<"M", "e">>,
    <<"M", "o", "i">>,
    <<"L", "e", "n">>,
    <<"H", "a", "r", "d">>,
    <<"s", "r", "c">>,
    <<<<"a">>, <<"b">>>>,
    12,
    34
  >>

DifficultySamples ==
  <<
    5000,
    4000,
    6000,
    8500,
    1500,
    1000
  >>

-----------------------------------------------------------------------------
(* Inputs of the field-block runs *)

MaxNonDefault == 2

MaxLines == 2

\* The subsets of S of at most k elements
RECURSIVE SubsetsUpTo(_, _)
SubsetsUpTo(S, k) ==
    IF k = 0 THEN {{}}
    ELSE LET prev == SubsetsUpTo(S, k - 1)
         IN  prev \cup {T \cup {x} : T \in prev, x \in S}

\* The sequences of at most k distinct elements of 1..n
RECURSIVE Arrangements(_, _)
Arrangements(n, k) ==
    IF k = 0 THEN {<<>>}
    ELSE LET prev == Arrangements(n, k - 1)
         IN  prev \cup UNION {{Append(a, x) : x \in (1..n) \ {a[i] : i \in 1..Len(a)}} :
                               a \in prev}

\* The text whose lines are `lines`, each ended by a newline
TextOfLines(lines) == Concat([i \in 1..Len(lines) |-> lines[i] \o <<"\n">>])

KVFields(c) ==
    CASE c = "GeneralSection"    -> GeneralFields
      [] c = "EditorSection"     -> EditorFields
      [] c = "MetadataSection"   -> MetadataFields
      [] c = "DifficultySection" -> DifficultyFields

KVSamples(c) ==
    CASE c = "GeneralSection"    -> GeneralSamples
      [] c = "EditorSection"     -> EditorSamples
      [] c = "MetadataSection"   -> MetadataSamples
      [] c = "DifficultySection" -> DifficultySamples

KVLines(c) ==
    CASE c = "GeneralSection"    -> GeneralLines
      [] c = "EditorSection"     -> EditorLines
      [] c = "MetadataSection"   -> MetadataLines
      [] c = "DifficultySection" -> DifficultyLines

\* Self::default() of a field-block section
KVDefault(c) ==
    LET fields == KVFields(c)
    IN  [i \in 1..Len(fields) |-> ScalarDefault(fields[i].type)]

\* Section values with at most MaxNonDefault fields away from their default
KVValues(c) ==
    LET samples == KVSamples(c)
        default == KVDefault(c)
    IN  {[i \in 1..Len(default) |-> IF i \in S THEN samples[i] ELSE default[i]] :
            S \in SubsetsUpTo(1..Len(default), MaxNonDefault)}

\* Section texts of at most MaxLines lines, in any order
KVTexts(c) ==
    LET lines == KVLines(c)
    IN  {TextOfLines([i \in 1..Len(a) |-> lines[a[i]]]) :
            a \in Arrangements(Len(lines), MaxLines)}

InitKV ==
    \E c \in KVCodecs :
        \/ \E v \in KVValues(c) : StartFromValue(c, v)
        \/ \E t \in KVTexts(c) : StartFromText(c, t)

SpecKV == InitKV /\ [][Next]_vars

-----------------------------------------------------------------------------
(* Inputs of the document runs *)

\* Section bodies for the document texts, per declared section: the first is
\* well formed, the others are further bodies the caller may hand in
SectionBodies == <<
    \* [General]
    <<<<"A", "u", "d", "i", "o", "F", "i", "l", "e", "n", "a", "m", "e", ":", " ", "a", ".", "m", "p", "3", "\n", "M", "o", "d", "e", ":", " ", "3">>,
      <<"M", "o", "d", "e", ":", " ", "a", "b", "c">>>>,
    \* [Editor]
    <<<<"B", "o", "o", "k", "m", "a", "r", "k", "s", ":", " ", "1", "2", ",", "3", "4", "\n", "B", "e", "a", "t", "D", "i", "v", "i", "s", "o", "r", ":", " ", "4">>,
      <<"B", "o", "o", "k", "m", "a", "r", "k", "s", ":", " ", "a", "b", "c">>,
      <<"B", "o", "o", "k", "m", "a", "r", "k", "s", ":", " ", "1", "\n", "G", "r", "i", "d", "S", "i", "z", "e", ":", " ", "x">>>>,
    \* [Metadata]
    <<<<"T", "i", "t", "l", "e", ":", "S", "o", "d", "a", "\n", "T", "a", "g", "s", ":", "a", " ", "b">>,
      <<"B", "e", "a", "t", "m", "a", "p", "I", "D", ":", "x">>,
      <<"T", "i", "t", "l", "e", ":", "S", "o", "d", "a">>>>,
    \* [Difficulty]
    <<<<"H", "P", "D", "r", "a", "i", "n", "R", "a", "t", "e", ":", "5", "\n", "C", "i", "r", "c", "l", "e", "S", "i", "z", "e", ":", "4">>,
      <<"C", "i", "r", "c", "l", "e", "S", "i", "z", "e", ":", "a", "b", "c">>>>,
    \* [Events]
    <<<<"0", ",", "0", ",", "\"", "b", "g", ".", "j", "p", "g", "\"", ",", "0", ",", "0", "\n", "2", ",", "1", "0", ",", "2", "0">>,
      <<"/", "/", "c", "\n", "2", ",", "1", "0", ",", "2", "0">>,
      <<"9", ",", "0", ",", "0">>,
      <<"0", ",", "0">>,
      <<>>>>,
    \* [TimingPoints]
    <<<<"1", "0", ",", "3", "3", "3", ".", "3", "3", ",", "4", ",", "0", ",", "0", ",", "1", "0", "0", ",", "1", ",", "1">>,
      <<"x", ",", "2", ",", "4", ",", "0", ",", "0", ",", "1", "0", "0", ",", "1", ",", "1">>,
      <<"1", ",", "2", ",", "4", ",", "9", ",", "0", ",", "1", "0", "0", ",", "1", ",", "1">>>>,
    \* [Colours]
    <<<<"C", "o", "m", "b", "o", "1", " ", ":", " ", "2", "5", "5", ",", "0", ",", "0">>,
      <<"F", "o", "o", " ", ":", " ", "1", ",", "2", ",", "3">>,
      <<"C", "o", "m", "b", "o", "9", " ", ":", " ", "1", ",", "2", ",", "3">>>>,
    \* [HitObjects]
    <<<<"2", "5", "6", ",", "1", "9", "2", ",", "1", "1", ",", "2", "1", ",", "2", ",", "0", ":", "0", ":", "0", ":", "0", ":", "\n", "2", "5", "6", ",", "1", "9", "2", ",", "1", "2", ",", "8", ",", "1", "2", ",", "1", "3", ",", "3", ":", "0", ":", "0", ":", "8", "0", ":">>,
      <<"1", ",", "2", ",", "3">>,
      <<"1", ",", "2", ",", "3", ",", "1", ",", "0", ",", "0", ":", "0", ":", "0">>,
      <<"1", ",", "2", ",", "3", ",", "1", ",", "0", ",", "7", ":", "0", ":", "0", ":", "0", ":">>,
      <<"x", ",", "2", ",", "3", ",", "1", ",", "0">>,
      <<"1", ",", "2", ",", "3", ",", "2", ",", "0", ",", "L", "|", "1", ":", "2", ",", "1", ",", "5", ".", "5", ",", "2", "|", "1", ",", "0", ":", "0", "|", "0", ":", "2", ",", "0", ":", "0", ":", "0", ":", "0", ":">>>>>>

MaxDeviations == 2

\* A plan gives each declared section the body it gets (0: header and body
\* are left out); BasePlan is the well-formed document
BasePlan == [i \in 1..Len(sections) |-> 1]

\* The plans at most k sections away from BasePlan
RECURSIVE Plans(_)
Plans(k) ==
    IF k = 0 THEN {BasePlan}
    ELSE LET prev == Plans(k - 1)
         IN  prev \cup UNION {{[p EXCEPT ![i] = o] :
                                    o \in (0..Len(SectionBodies[i])) \ {1}} :
                                 p \in prev, i \in 1..Len(sections)}

\* The orders in which the sections are laid out: the declared order, and the
\* declared order with two neighbours exchanged
Orders ==
    LET swap(k) == [i \in 1..Len(sections) |->
                       IF i = k THEN k + 1 ELSE IF i = k + 1 THEN k ELSE i]
    IN  [declared |-> {[i \in 1..Len(sections) |-> i]},
         swapped  |-> {swap(k) : k \in {1, 6, 7}}]

\* The text of a plan laid out in an order, as an .osu file is laid out
DocText(plan, order) ==
    <<"o", "s", "u", " ", "f", "i", "l", "e", " ", "f", "o", "r", "m", "a", "t", " ",
      "v", "1", "4", "\n", "\n">>
    \o Concat([k \in 1..Len(sections) |->
                  LET i == order[k]
                  IN  IF plan[i] = 0 THEN <<>>
                      ELSE sections[i].name \o <<"\n">> \o SectionBodies[i][plan[i]]
                           \o <<"\n", "\n">>])

DocTexts ==
    {DocText(p, o) : p \in Plans(MaxDeviations), o \in Orders.declared}
    \cup {DocText(p, o) : p \in Plans(MaxDeviations - 1), o \in Orders.swapped}

\* Section values for the documents the caller constructs, per declared
\* section: the first of each is a value with content
SectionSamples ==
    LET circle == [x |-> 256, y |-> 192, time |-> 11, object_params |-> HitCircleParams,
                   new_combo |-> TRUE, combo_skip |-> 0, hit_sound |-> 2,
                   hit_sample |-> HitSample_default]
        edges  == [sounds |-> <<2, 1>>, sets |-> <<<<0, 0>>, <<0, 2>>>>]
        slider == [type |-> "Slider", slider_type |-> "Linear",
                   curve_points |-> <<[x |-> 1, y |-> 2]>>, slides |-> 1, length |-> 5500,
                   edge_sounds |-> edges]
        bg     == [type |-> "Background", filename |-> <<"b", "g">>, x_offset |-> 0,
                   y_offset |-> 0]
        red    == [colour_of |-> [type |-> "Combo", id |-> 1],
                   colour |-> [red |-> 255, green |-> 0, blue |-> 0]]
    IN  << \* general
           <<[KVDefault("GeneralSection") EXCEPT ![1] = GeneralSamples[1]],
             KVDefault("GeneralSection")>>,
           \* editor
           <<[KVDefault("EditorSection") EXCEPT ![1] = EditorSamples[1]],
             KVDefault("EditorSection")>>,
           \* metadata
           <<[KVDefault("MetadataSection") EXCEPT ![1] = MetadataSamples[1],
                                                   ![8] = MetadataSamples[8]],
             KVDefault("MetadataSection")>>,
           \* difficulty
           <<[KVDefault("DifficultySection") EXCEPT ![1] = DifficultySamples[1]],
             KVDefault("DifficultySection")>>,
           \* events
           <<<<[start_time |-> 0, event_params |-> bg],
               [start_time |-> 10, event_params |-> [type |-> "Break", end_time |-> 20]]>>,
             <<>>>>,
           \* timing_points
           <<<<[time |-> 10, beat_length |-> 333330, meter |-> 4, sample_set |-> "Default",
                sample_index |-> 0, volume |-> 100, is_uninherited |-> TRUE,
                effects |-> 1]>>,
             <<>>>>,
           \* colours
           <<[Colours_default EXCEPT !.combos[1] = Some(red)], Colours_default>>,
           \* hit_objects
           <<<<circle,
               [circle EXCEPT !.object_params = [type |-> "Spinner", end_time |-> 13],
                              !.new_combo = FALSE]>>,
             <<>>,
             <<[circle EXCEPT !.object_params = slider]>>,
             <<[circle EXCEPT !.object_params = [type |-> "ManiaHold", end_time |-> 13]]>>,
             <<[circle EXCEPT !.combo_skip = 3]>>>> >>

\* The documents at most k sections away from the first value of each
RECURSIVE Choices(_)
Choices(k) ==
    IF k = 0 THEN {[i \in 1..Len(sections) |-> 1]}
    ELSE LET prev == Choices(k - 1)
         IN  prev \cup UNION {{[p EXCEPT ![i] = o] : o \in 1..Len(SectionSamples[i])} :
                                 p \in prev, i \in 1..Len(sections)}

Document(choice) ==
    [general |-> SectionSamples[1][choice[1]], editor |-> SectionSamples[2][choice[2]],
     metadata |-> SectionSamples[3][choice[3]], difficulty |-> SectionSamples[4][choice[4]],
     events |-> SectionSamples[5][choice[5]], timing_points |-> SectionSamples[6][choice[6]],
     colours |-> SectionSamples[7][choice[7]], hit_objects |-> SectionSamples[8][choice[8]]]

DocValues == {Document(c) : c \in Choices(MaxDeviations)}

Init ==
    \/ \E t \in DocTexts : StartFromText("BeatmapLevel", t)
    \/ \E d \in DocValues : StartFromValue("BeatmapLevel", d)

Spec == Init /\ [][Next]_vars

-----------------------------------------------------------------------------
(* Inputs of the list runs *)

MaxListLines == 3

\* Lines for the list texts, per element type: records the element parser
\* accepts, commentary, and lines it rejects
ListLines(T) ==
    CASE T = "Event" ->
            <<<<"0", ",", "0", ",", "\"", "b", "g", ".", "j", "p", "g", "\"", ",", "0", ",", "0">>,
              <<"2", ",", "1", "0", ",", "2", "0">>,
              <<"/", "/", "c">>,
              <<" ", "/", "/", "d">>,
              <<"9", ",", "0", ",", "0">>,
              <<"0", ",", "0">>>>
      [] T = "TimingPoint" ->
            <<<<"1", "0", ",", "3", "3", "3", ".", "3", "3", ",", "4", ",", "0", ",", "0", ",", "1", "0", "0", ",", "1", ",", "1">>,
              <<"1", "2", ",", "-", "2", "5", ",", "4", ",", "3", ",", "0", ",", "1", "0", "0", ",", "0", ",", "1">>,
              <<"x", ",", "2", ",", "4", ",", "0", ",", "0", ",", "1", "0", "0", ",", "1", ",", "1">>>>
      [] T = "HitObject" ->
            <<<<"2", "5", "6", ",", "1", "9", "2", ",", "1", "1", ",", "5", ",", "2", ",", "0", ":", "0", ":", "0", ":", "0", ":">>,
              <<"2", "5", "6", ",", "1", "9", "2", ",", "1", "2", ",", "8", ",", "0", ",", "1", "3", ",", "3", ":", "0", ":", "0", ":", "8", "0", ":">>,
              <<"x", ",", "2", ",", "3", ",", "1", ",", "0">>>>

\* The sequences of at most k elements of 1..n
RECURSIVE LineChoices(_, _)
LineChoices(n, k) ==
    IF k = 0 THEN {<<>>}
    ELSE LET prev == LineChoices(n, k - 1)
         IN  prev \cup {Append(a, x) : a \in prev, x \in 1..n}

\* List texts of at most MaxListLines lines
ListTexts(T) ==
    {TextOfLines([i \in 1..Len(a) |-> ListLines(T)[a[i]]]) :
        a \in LineChoices(Len(ListLines(T)), MaxListLines)}

\* List texts with a blank line between two records the element parser
\* accepts
BlankLineTexts(T) ==
    {TextOfLines(<<ListLines(T)[1], <<>>, ListLines(T)[2]>>),
     TextOfLines(<<ListLines(T)[2], <<" ">>, ListLines(T)[1]>>)}

\* Storyboard lines of an [Events] text: a sample and a sprite
StoryboardLines ==
    <<<<"S", "a", "m", "p", "l", "e", ",", "1", "0", ",", "0", ",", "\"", "a", ".", "w", "a", "v", "\"", ",", "8", "0">>,
      <<"S", "p", "r", "i", "t", "e", ",", "P", "a", "s", "s", ",", "C", "e", "n", "t", "r", "e", ",", "\"", "a", ".", "p", "n", "g", "\"", ",", "3", "2", "0", ",", "2", "4", "0">>>>

\* [Events] texts with a storyboard line among records
StoryboardTexts ==
    {TextOfLines(<<ListLines("Event")[1], StoryboardLines[1], ListLines("Event")[2]>>),
     TextOfLines(<<StoryboardLines[2], ListLines("Event")[2]>>)}

\* A [TimingPoints] text of one line whose effects field is e
EffectsText(e) ==
    TextOfLines(<<<<"1", "0", ",", "5", "0", "0", ",", "4", ",", "0", ",", "0", ",", "1", "0", "0", ",", "1", ",">>
                  \o NatToString(e)>>)

\* The lists the caller constructs: the list samples of the documents
ListValues(T) ==
    CASE T = "Event"       -> {SectionSamples[5][k] : k \in 1..Len(SectionSamples[5])}
      [] T = "TimingPoint" -> {SectionSamples[6][k] : k \in 1..Len(SectionSamples[6])}
      [] T = "HitObject"   -> {SectionSamples[8][k] : k \in 1..Len(SectionSamples[8])}

InitList ==
    \/ \E T \in ListCodecs :
           \/ \E t \in ListTexts(T) : StartFromText(T, t)
           \/ \E t \in BlankLineTexts(T) : StartFromText(T, t)
           \/ \E v \in ListValues(T) : StartFromValue(T, v)
    \/ \E t \in StoryboardTexts : StartFromText("Event", t)
    \/ \E e \in 0..255 : StartFromText("TimingPoint", EffectsText(e))

SpecList == InitList /\ [][Next]_vars

-----------------------------------------------------------------------------
(* Inputs of the element and scalar runs *)

\* The part of a hit-object line after hitSoundBits, per shape, as the parser
\* reads it
ShapeTail(shape) ==
    CASE shape = "HitCircle" -> <<"0", ":", "0", ":", "0", ":", "0", ":">>
      [] shape = "Slider"    -> <<"B", "|", "1", ":", "2", "|", "3", ":", "4", ",", "2", ",", "1", ".", "5", ",", "2", "|", "0", ",", "0", ":", "0", "|", "1", ":", "2", ",", "0", ":", "0", ":", "0", ":", "0", ":">>
      [] shape = "Spinner"   -> <<"1", "3", ",", "3", ":", "0", ":", "0", ":", "8", "0", ":">>
      [] shape = "ManiaHold" -> <<"1", "3", ":", "3", ":", "0", ":", "0", ":", "8", "0", ":">>

\* The shape HitObjectType::try_from picks for the type bits t, the hit
\* circle when no shape bit is set
ShapeOfBits(t) ==
    IF IsOk(HitObjectType_try_from(t)) THEN HitObjectType_try_from(t).v ELSE "HitCircle"

\* A hit-object line whose typeBits field is t and whose tail fits the shape
TypeBitsLine(t) ==
    <<"2", "5", "6", ",", "1", "9", "2", ",", "1", "1", ",">> \o NatToString(t) \o <<",", "2", ",">> \o ShapeTail(ShapeOfBits(t))

\* A line of five fields, without a tail, whose typeBits field is t
FiveFieldLine(t) ==
    <<"2", "5", "6", ",", "1", "9", "2", ",", "1", "1", ",">> \o NatToString(t) \o <<",", "2">>

\* The fixtures of the crate's hit-object tests (hit_objects.rs:695-697)
TEST_HIT_CIRCLE ==
    <<"2", "5", "6", ",", "1", "9", "2", ",", "1", "1", "0", "0", "0", ",", "2", "1", ",", "2", ",", "0", ":", "0", ":", "0", ":", "0", ":">>

TEST_SPINNER ==
    <<"2", "5", "6", ",", "1", "9", "2", ",", "1", "1", "2", "0", "0", ",", "8", ",", "1", "2", ",", "1", "2", "0", "0", "0", ",", "3", ":", "0", ":", "0", ":", "8", "0", ":">>

TEST_SLIDER ==
    <<"1", "0", "0", ",", "1", "0", "0", ",", "1", "2", "6", "0", "0", ",", "6", ",", "1", ",", "B", "|", "2", "0", "0", ":", "2", "0", "0", "|", "2", "5", "0", ":", "2", "0", "0", "|", "2", "5", "0", ":", "2", "0", "0", "|", "3", "0", "0", ":", "1", "5", "0", ",", "2", ",", "3", "1", "0", ".", "1", "2", "3", ",", "2", "|", "1", "|", "2", ",", "0", ":", "0", "|", "0", ":", "0", "|", "0", ":", "2", ",", "0", ":", "0", ":", "0", ":", "0", ":">>

\* Hit-circle lines of five fields, and lines the parser rejects
ShortLines ==
    {<<"2", "5", "6", ",", "1", "9", "2", ",", "1", "1", ",", "1", ",", "0">>,
     <<"2", "5", "6", ",", "1", "9", "2", ",", "1", "1", ",", "5", ",", "2">>,
     <<"2", "5", "6", ",", "1", "9", "2", ",", "1", "1", ",", "8", ",", "0">>,
     <<"2", "5", "6", ",", "1", "9", "2", ",", "1", "1", ",", "1">>}

HitObjectLines ==
    {TypeBitsLine(t) : t \in 0..255} \cup {FiveFieldLine(t) : t \in 0..255}
    \cup {TEST_HIT_CIRCLE, TEST_SPINNER, TEST_SLIDER}
    \cup ShortLines

\* The hit objects the caller constructs: those of the list samples, and a
\* slider with two curve points and two edge-effect pairs, and hit circles
\* that start a combo with each skip count
HitObjectValues ==
    UNION {{l[k] : k \in 1..Len(l)} : l \in ListValues("HitObject")}
    \cup {[SectionSamples[8][3][1] EXCEPT
              !.object_params.curve_points = <<[x |-> 1, y |-> 2], [x |-> -3, y |-> 4]>>,
              !.object_params.slider_type = "Bezier",
              !.new_combo = FALSE]}
    \cup {[SectionSamples[8][1][1] EXCEPT !.combo_skip = k] : k \in 0..7}

\* Texts handed to the scalar codecs
ScalarTexts(T) ==
    CASE T = "OsuBool" ->
            {<<"1">>,
             <<"t", "r", "u", "e">>,
             <<"0">>,
             <<"f", "a", "l", "s", "e">>,
             <<>>,
             <<"2">>,
             <<"T", "r", "u", "e">>,
             <<"T", "R", "U", "E">>,
             <<"y", "e", "s">>,
             <<" ", "1">>,
             <<"0", "1">>,
             <<"n", "o">>}
      [] T \in {"Gamemode", "Countdown"} ->
            {<<"0">>,
             <<"1">>,
             <<"2">>,
             <<"3">>,
             <<"4">>,
             <<"7">>,
             <<"-", "1">>,
             <<"a", "b", "c">>,
             <<>>,
             <<"1", ".", "5">>,
             <<"+", "2">>,
             <<" ", "3">>}

\* The values of the scalar types
ScalarValues(T) ==
    CASE T = "OsuBool"   -> BOOLEAN
      [] T = "Gamemode"  -> {GamemodeNames[i] : i \in 1..4}
      [] T = "Countdown" -> {CountdownNames[i] : i \in 1..4}

MaxEdges == 2

\* The sequences of at most k elements of S
RECURSIVE SeqsUpTo(_, _)
SeqsUpTo(S, k) ==
    IF k = 0 THEN {<<>>}
    ELSE LET prev == SeqsUpTo(S, k - 1)
         IN  prev \cup {Append(a, x) : a \in prev, x \in S}

\* The edge sounds the caller constructs: at most MaxEdges sounds and at most
\* MaxEdges pairs of sample sets, either list possibly empty
EdgeSoundsValues ==
    {[sounds |-> s, sets |-> p] :
        s \in SeqsUpTo({0, 2}, MaxEdges), p \in SeqsUpTo({<<0, 0>>, <<1, 2>>}, MaxEdges)}

\* Texts handed to EdgeSounds::from_str
EdgeSoundsTexts ==
    {<<"2", "|", "1", ",", "0", ":", "0", "|", "0", ":", "2">>,
     <<"2", ",", "0", ":", "0">>,
     <<"2", "|", "1">>,
     <<"2", "|", "1", ",">>,
     <<",", "0", ":", "0">>,
     <<",">>,
     <<>>,
     <<"2", ",", "0", ":", "0", "|">>,
     <<"2", "|", ",", "0", ":", "0">>,
     <<"2", ",", "0">>,
     <<"a", ",", "0", ":", "0">>,
     <<" ", "2", ",", "1", ":", "2", " ">>}

InitElement ==
    \/ \E t \in HitObjectLines : StartFromText("HitObjectLine", t)
    \/ \E v \in HitObjectValues : StartFromValue("HitObjectLine", v)
    \/ \E t \in EdgeSoundsTexts : StartFromText("EdgeSounds", t)
    \/ \E v \in EdgeSoundsValues : StartFromValue("EdgeSounds", v)
    \/ \E T \in ScalarCodecs :
        \/ \E t \in ScalarTexts(T) : StartFromText(T, t)
        \/ \E v \in ScalarValues(T) : StartFromValue(T, v)

SpecElement == InitElement /\ [][Next]_vars

-----------------------------------------------------------------------------
(* Properties of the document codec, checked under Spec *)

\* The run exercises the document codec from a text, and the text is parsed
DocParsed == codec = "BeatmapLevel" /\ src.some /\ pc # "text"

\* The declared positions of the headers that do not occur in the text t
HeadersAbsent(t) == {i \in 1..Len(sections) : ~Contains(t, sections[i].name)}

\* The declared positions of the mandatory headers
MandatoryHeaders == {i \in 1..Len(sections) : sections[i].mandatory}

\* C1: for a document text T in canonical form (T = to_string(d) for a
\* document d), parse(T) succeeds and to_string(parse(T)) = T byte for byte.
C1_CanonicalTextRoundTrip ==
    (codec = "BeatmapLevel" /\ ~src.some /\ pc \in {"back", "failed", "done"}) =>
        /\ IsOk(back)
        /\ pc = "done" => out2 = out

\* C2: for every text T that parse accepts, parse(to_string(parse(T)))
\* succeeds and yields the same field values as parse(T).
C2_ReparseSameValues ==
    (DocParsed /\ IsOk(val) /\ pc \in {"back", "failed", "done"}) => back = val

\* C3: when a mandatory header does not occur in the text, parse fails with
\* SectionNotFound naming the first missing mandatory header in declaration
\* order.
C3_FirstMissingMandatoryReported ==
    (DocParsed /\ HeadersAbsent(src.v) \cap MandatoryHeaders # {}) =>
        val = Err(SectionNotFound(
                    sections[MinOf(HeadersAbsent(src.v) \cap MandatoryHeaders)].name))

C3_Witness ==
    /\ DocParsed /\ pc = "failed"
    /\ Cardinality(HeadersAbsent(src.v) \cap MandatoryHeaders) >= 2
    /\ 1 \notin HeadersAbsent(src.v)
    /\ IsErr(val) /\ val.e.kind = "SectionNotFound"

\* The text of the well-formed document without the optional sections `left`
WellFormedWithout(left) ==
    DocText([i \in 1..Len(sections) |-> IF i \in left THEN 0 ELSE 1],
            [i \in 1..Len(sections) |-> i])

\* C4: when [TimingPoints] or [Colours] does not occur in the text and all
\* mandatory headers do, parse does not fail because of the absence: no
\* SectionNotFound is reported, an otherwise well-formed text is accepted,
\* and in the document timing_points is the empty list and colours is the
\* default value with no colour set.
C4_AbsentOptionalSection ==
    (DocParsed /\ HeadersAbsent(src.v) \cap MandatoryHeaders = {}
               /\ HeadersAbsent(src.v) # {}) =>
        /\ ~(IsErr(val) /\ val.e.kind = "SectionNotFound")
        /\ src.v = WellFormedWithout(HeadersAbsent(src.v)) => IsOk(val)
        /\ (IsOk(val) /\ 6 \in HeadersAbsent(src.v)) => val.v.timing_points = <<>>
        /\ (IsOk(val) /\ 7 \in HeadersAbsent(src.v)) =>
               /\ \A k \in 1..8 : ~val.v.colours.combos[k].some
               /\ ~val.v.colours.slider_track_override.some
               /\ ~val.v.colours.slider_border.some

C4_Witness ==
    /\ DocParsed /\ pc = "value" /\ IsOk(val)
    /\ HeadersAbsent(src.v) = {6, 7}
    /\ val.v.timing_points = <<>> /\ val.v.colours = Colours_default
    /\ val.v.hit_objects # <<>>

\* The scan gave every found header a range that can be sliced
Sliceable(t) == \A i \in 1..Len(sections) : ~IsPanic(SectionString(t, i))

\* C5: parse is all-or-nothing: a document is returned only when every
\* present section parsed successfully, its fields being the sections'
\* values; when a section's parse returns an error, parse returns that
\* error value unchanged and no document.
C5_AllOrNothing ==
    (DocParsed /\ HeadersAbsent(src.v) \cap MandatoryHeaders = {} /\ Sliceable(src.v)) =>
        /\ IsOk(val) <=> \A i \in 1..Len(sections) : IsOk(SectionResults(src.v)[i])
        /\ IsOk(val) => SectionFields(val.v) =
                           [i \in 1..Len(sections) |-> SectionResults(src.v)[i].v]
        /\ IsErr(val) => \E i \in 1..Len(sections) :
                            /\ SectionResults(src.v)[i] = val
                            /\ \A j \in 1..(i - 1) : IsOk(SectionResults(src.v)[j])

C5_Witness ==
    /\ DocParsed /\ pc = "failed" /\ IsErr(val) /\ val.e.kind = "InvalidFormat"
    /\ Sliceable(src.v)
    /\ Cardinality({i \in 1..Len(sections) : IsErr(SectionResults(src.v)[i])}) >= 2
    /\ IsOk(SectionResults(src.v)[1])

\* C6: parse returns a document or a BeatmapParseError value for every input
\* text and never aborts.
C6_ParseNeverAborts == DocParsed => ~IsPanic(val)

-----------------------------------------------------------------------------
(* Properties of the field-block sections, checked under SpecKV *)

\* The run exercises a field-block section from a text, and the text is parsed
KVParsed == codec \in KVCodecs /\ src.some /\ pc # "text"

\* The text `out` has been written
Written == pc \in {"out", "back", "done"} \/ (pc = "failed" /\ IsOk(val) /\ src.some)
           \/ (pc = "failed" /\ ~src.some)

\* The line the extractor selects for the field `name`: the first that
\* contains it
SelectedLine(lines, name) ==
    IF \E k \in 1..Len(lines) : Contains(lines[k], name)
    THEN Some(lines[MinOf({k \in 1..Len(lines) : Contains(lines[k], name)})])
    ELSE None

\* Whether the text parses to the declared type of field i of section c:
\* bookmarks is a list of integers, tags a list of strings
ParsesAsDeclared(c, i, text) ==
    IF c = "EditorSection" /\ i = 1
    THEN \A k \in 1..Len(Split(text, ",")) : IsOk(I32FromStr(Split(text, ",")[k]))
    ELSE IF c = "MetadataSection" /\ i = 8 THEN TRUE
    ELSE IsOk(ScalarFromStr(KVFields(c)[i].type, text))

\* Field i of section c selects a line of `lines` that is no `name:value` pair
NoPairFor(c, lines, i) ==
    /\ SelectedLine(lines, KVFields(c)[i].name).some
    /\ ~SplitOnce(SelectedLine(lines, KVFields(c)[i].name).v, ":").some

\* Field i of section c selects a line of `lines` that carries a value which
\* does not parse to the field's type
MalformedFor(c, lines, i) ==
    /\ SelectedLine(lines, KVFields(c)[i].name).some
    /\ SplitOnce(SelectedLine(lines, KVFields(c)[i].name).v, ":").some
    /\ ~ParsesAsDeclared(c, i,
            Trim(SplitOnce(SelectedLine(lines, KVFields(c)[i].name).v, ":").v[2]))

\* C7: when the line selected for a field carries a value that does not parse
\* to the field's declared type, the section parse fails with
\* InvalidFormat{field: name} naming the field being read (the first such
\* field in reading order).
C7_MalformedValueNamesField ==
    KVParsed =>
        \A i \in 1..Len(KVFields(codec)) :
            (/\ MalformedFor(codec, SectionLines(src.v), i)
             /\ \A j \in 1..(i - 1) :
                    /\ ~MalformedFor(codec, SectionLines(src.v), j)
                    /\ ~NoPairFor(codec, SectionLines(src.v), j))
            => val = Err(InvalidFormat(KVFields(codec)[i].name))

\* The text a field value is written as: a list is joined by its separator
FieldText(c, i, v) ==
    IF c = "EditorSection" /\ i = 1
    THEN JoinPop([k \in 1..Len(v) |-> IntToString(v[k])], ",")
    ELSE IF c = "MetadataSection" /\ i = 8 THEN JoinPop(v, " ")
    ELSE ScalarToString(KVFields(c)[i].type, v)

\* The line of field i of section c with the value v
FieldLine(c, i, v) ==
    KVFields(c)[i].name
    \o (IF c \in {"GeneralSection", "EditorSection"} THEN <<":", " ">> ELSE <<":">>)
    \o FieldText(c, i, v) \o <<"\n">>

\* C8: serializing a field-block section emits, in declared field order,
\* exactly one line per field whose value differs from its type's default and
\* no line for a field equal to the default; the line is "name: value\n" in
\* General and Editor and "name:value\n" in Metadata and Difficulty.
C8_OneLinePerNonDefaultField ==
    (codec \in KVCodecs /\ Written) =>
        out = Concat([i \in 1..Len(KVFields(codec)) |->
                         IF val.v[i] = KVDefault(codec)[i] THEN <<>>
                         ELSE FieldLine(codec, i, val.v[i])])

\* C9: for every field-block section value v, parsing the text produced by
\* serializing v succeeds and gives back v's field values.
C9_ValueRoundTrip ==
    (codec \in KVCodecs /\ ~src.some /\ pc \in {"back", "failed", "done"}) => back = val

-----------------------------------------------------------------------------
(* Properties of the lists, checked under SpecList *)

\* The records of the accepted lines among the element results, in order
RECURSIVE AcceptedRecords(_)
AcceptedRecords(res) ==
    IF res = <<>> THEN <<>>
    ELSE (IF IsOk(Head(res)) THEN <<Head(res).v>> ELSE <<>>) \o AcceptedRecords(Tail(res))

\* The results of the element parser on the lines of the list text t
LineResults(T, t) ==
    [i \in 1..Len(TrimmedSplit(t, "\n")) |-> Element_parse(T, TrimmedSplit(t, "\n")[i])]

\* The element parser signals a commentary or storyboard line
Signalled(r) == IsErr(r) /\ r.e.kind \in {"CommentaryEntry", "StoryboardEntry"}

\* C10: CommaListOf::from_str returns the records of exactly the lines the
\* element parser accepted, in input order, and leaves out every line for
\* which the element parser signals CommentaryEntry or StoryboardEntry
\* without aborting the list.
C10_ListSkipsCommentary ==
    (/\ codec \in ListCodecs /\ src.some /\ pc # "text"
     /\ \A i \in 1..Len(LineResults(codec, src.v)) :
            IsOk(LineResults(codec, src.v)[i]) \/ Signalled(LineResults(codec, src.v)[i]))
    => val = Ok(AcceptedRecords(LineResults(codec, src.v)))

\* A list text of one commentary line and one data line parsed to one record
C10_Witness ==
    /\ codec = "Event" /\ src.some /\ pc = "value"
    /\ Len(LineResults(codec, src.v)) = 2
    /\ Signalled(LineResults(codec, src.v)[1])
    /\ IsOk(LineResults(codec, src.v)[2])
    /\ val = Ok(<<LineResults(codec, src.v)[2].v>>)


\* The element parser returns an error that is not one of the two signals
HardError(r) == IsErr(r) /\ ~Signalled(r)

\* C11: when the element parser returns an error other than CommentaryEntry
\* and StoryboardEntry for a line, CommaListOf::from_str returns that error
\* (the one of the first such line it reaches) and no list, however many
\* earlier lines were accepted.
C11_HardErrorAbortsList ==
    (codec \in ListCodecs /\ src.some /\ pc # "text") =>
        \A i \in 1..Len(LineResults(codec, src.v)) :
            (/\ HardError(LineResults(codec, src.v)[i])
             /\ \A j \in 1..(i - 1) :
                    IsOk(LineResults(codec, src.v)[j]) \/ Signalled(LineResults(codec, src.v)[j]))
            => val = LineResults(codec, src.v)[i]

\* A list text whose first line was accepted and whose second line was
\* rejected: the parse has failed with the second line's error
C11_Witness ==
    /\ codec = "TimingPoint" /\ src.some /\ pc = "failed"
    /\ Len(LineResults(codec, src.v)) >= 2
    /\ IsOk(LineResults(codec, src.v)[1])
    /\ HardError(LineResults(codec, src.v)[2])
    /\ val = LineResults(codec, src.v)[2]

\* The list run has started from a list the caller constructed and written it
ListWritten == codec \in ListCodecs /\ ~src.some /\ pc \in {"out", "back", "failed", "done"}

\* C12: CommaListOf::to_string writes each record's own serialization
\* followed by one newline, in list order (the empty list gives the empty
\* text), and for a list text T written that way, from_str(T) succeeds and
\* to_string(from_str(T)) = T.
C12_ListTextRoundTrip ==
    ListWritten =>
        /\ out = Concat([i \in 1..Len(val.v) |-> Element_serialize(codec, val.v[i]) \o <<"\n">>])
        /\ pc # "out" => IsOk(back)
        /\ pc = "done" => out2 = out

-----------------------------------------------------------------------------
(* Properties of the hit-object lines and the scalar codecs, checked under
   SpecElement *)

\* Exactly one of the shape bits (0, 1, 3, 7) is set in t, and the skip bits
\* (4, 5, 6) are set in t only together with the new-combo bit (2)
WellFormedTypeBits(t) ==
    /\ Cardinality(BitsOf(t) \cap {0, 1, 3, 7}) = 1
    /\ BitsOf(t) \cap {4, 5, 6} # {} => 2 \in BitsOf(t)

\* The k-th comma field of a written line
WrittenField(line, k) == Split(line, ",")[k]

\* C13: for every typeBits value t in 0..255 with exactly one shape bit and
\* with skip bits only together with the new-combo bit, the typeBits field
\* HitObject::to_string writes for the object HitObject::from_str decoded
\* from a line carrying t is t again.
C13_TypeBitsRoundTrip ==
    \A t \in 0..255 :
        (/\ codec = "HitObjectLine" /\ src = Some(TypeBitsLine(t))
         /\ pc \in {"out", "back", "failed", "done"}
         /\ WellFormedTypeBits(t))
        => /\ IsOk(val)
           /\ WrittenField(out, 4) = NatToString(t)

\* The mania-hold lines among the inputs: typeBits with the hold bit (7) as
\* their only shape bit, the end time and the hit sample separated by ':'
HoldLines == {TypeBitsLine(t) : t \in {128, 132}}

\* C14: for a mania-hold line the end time and the hit-sample block are
\* separated by ':' in both directions: from_str reads the end time as the
\* text before the first ':' of the sixth field, and to_string writes the end
\* time, ':' and the hit sample, so that to_string(from_str(x)) = x for a
\* canonical hold line x.
C14_HoldColonBothWays ==
    (codec = "HitObjectLine" /\ src.some /\ src.v \in HoldLines
     /\ pc \in {"out", "back", "failed", "done"})
    => /\ IsOk(val)
       /\ val.v.object_params = [type |-> "ManiaHold", end_time |-> 13]
       /\ out = src.v

\* Canonical lines of the three shapes: the fixtures of the crate's tests and
\* the generated lines of a hit circle, a slider and a spinner, plain, with
\* the new-combo bit, and with the skip-one bit
CanonicalLines ==
    {TEST_HIT_CIRCLE, TEST_SPINNER, TEST_SLIDER}
    \cup {TypeBitsLine(t) : t \in {1, 2, 8, 5, 6, 12, 21, 22, 28}}

\* The shape's own fields as written before the hit sample
ShapeFields(p) ==
    CASE p.type = "HitCircle" -> <<>>
      [] p.type = "Slider" ->
            SliderType_to_string(p.slider_type)
            \o Concat([i \in 1..Len(p.curve_points) |->
                          <<"|">> \o IntToString(p.curve_points[i].x) \o <<":">>
                          \o IntToString(p.curve_points[i].y)])
            \o <<",">> \o IntToString(p.slides) \o <<",">> \o F32ToString(p.length)
            \o <<",">> \o EdgeSounds_to_string(p.edge_sounds) \o <<",">>
      [] p.type = "Spinner" -> IntToString(p.end_time) \o <<",">>

\* The line of the hit object o in the order x,y,time,typeBits,hitSoundBits,
\* shape fields, hit sample, the typeBits field being `bits`
LineInOrder(o, bits) ==
    IntToString(o.x) \o <<",">> \o IntToString(o.y) \o <<",">> \o IntToString(o.time)
    \o <<",">> \o bits \o <<",">> \o IntToString(o.hit_sound) \o <<",">>
    \o ShapeFields(o.object_params) \o HitSample_to_string(o.hit_sample)

C16_OsuBoolCodec ==
    /\ (codec = "OsuBool" /\ src.some /\ pc # "text") =>
          /\ src.v \in {<<"1">>, <<"t", "r", "u", "e">>} => val = Ok(TRUE)
          /\ src.v \in {<<"0">>, <<"f", "a", "l", "s", "e">>} => val = Ok(FALSE)
          /\ src.v \notin {<<"1">>, <<"t", "r", "u", "e">>, <<"0">>, <<"f", "a", "l", "s", "e">>}
             => IsErr(val)
    /\ (codec = "OsuBool" /\ pc \in {"out", "back", "done"}) =>
          out = IF val.v THEN <<"1">> ELSE <<"0">>
    /\ (codec = "OsuBool" /\ ~src.some /\ pc \in {"back", "failed", "done"}) => back = val

\* The word "true" was read as true and written as "1"
C16_Witness ==
    /\ codec = "OsuBool" /\ src = Some(<<"t", "r", "u", "e">>)
    /\ pc = "out" /\ val = Ok(TRUE) /\ out = <<"1">>

\* C18: a hit-circle line of exactly five comma fields, without a hit-sample
\* block, parses successfully, and its hit_sample is HitSample::default():
\* both sample sets Default, index 0, volume 0, empty filename.
C18_CircleWithoutHitSample ==
    \A t \in 0..255 :
        (/\ codec = "HitObjectLine" /\ src = Some(FiveFieldLine(t)) /\ pc # "text"
         /\ HitObjectType_try_from(t) = Ok("HitCircle"))
        => /\ IsOk(val)
           /\ val.v.object_params = HitCircleParams
           /\ val.v.hit_sample = [normal_set |-> "Default", additional_set |-> "Default",
                                  index |-> 0, volume |-> 0, filename |-> <<>>]

\* The five-field line of a hit circle that starts a combo has been parsed
C18_Witness ==
    /\ codec = "HitObjectLine" /\ src = Some(FiveFieldLine(5)) /\ pc = "value"
    /\ IsOk(val) /\ val.v.new_combo /\ val.v.hit_sample = HitSample_default

-----------------------------------------------------------------------------
(* Properties of the document splitter, checked under Spec *)

\* The declared positions of the headers found in the text t
HeadersFound(t) == (1..Len(sections)) \ HeadersAbsent(t)

\* The found headers occur in the text in declaration order
HeadersInOrder(t) ==
    \A i, j \in HeadersFound(t) :
        i < j => Find(t, sections[i].name).v < Find(t, sections[j].name).v

\* Where the span of the found header i ends: at the first occurrence of the
\* next found header in declaration order, or at the end of the text
SpanEnd(t, i) ==
    IF \E j \in HeadersFound(t) : j > i
    THEN Find(t, sections[MinOf({j \in HeadersFound(t) : j > i})].name).v
    ELSE Len(t)

\* The span of the found header i without the header token, trimmed
SpanText(t, i) ==
    Trim(SubSeq(t, Find(t, sections[i].name).v + Len(sections[i].name) + 1, SpanEnd(t, i)))

\* What the section codecs return when each found section's codec is handed
\* its span text, an absent optional section taking its empty value
SpanResults(t) ==
    [i \in 1..Len(sections) |->
        IF i \in HeadersFound(t) THEN Section_parse(SectionTypes[i], SpanText(t, i))
        ELSE IF i = 6 THEN Ok(<<>>) ELSE Ok(Colours_default)]

\* C19: for each header found, the text handed to that section's codec is
\* the substring from the first occurrence of its header up to the first
\* occurrence of the next found header in declaration order (an absent
\* optional header contributes no boundary, the last present section runs to
\* the end of the text), with the header token removed and the surrounding
\* whitespace trimmed: the parse returns what the codecs return on those
\* texts. The spans are those of found headers laid out in declaration order.
C19_SectionSpans ==
    (DocParsed /\ HeadersAbsent(src.v) \cap MandatoryHeaders = {} /\ HeadersInOrder(src.v)) =>
        /\ \A i \in 1..Len(sections) : (IsOk(val) /\ i \in HeadersFound(src.v)) =>
               SectionFields(val.v)[i] = SpanResults(src.v)[i].v
        /\ ~IsOk(val) => \E i \in 1..Len(sections) :
                            /\ SpanResults(src.v)[i] = val
                            /\ \A j \in 1..(i - 1) : IsOk(SpanResults(src.v)[j])

\* A text without [TimingPoints] has been parsed: the span of [Events] ran up
\* to [Colours], and the events are those of that span
C19_Witness ==
    /\ DocParsed /\ pc = "value" /\ IsOk(val)
    /\ HeadersAbsent(src.v) = {6}
    /\ SpanEnd(src.v, 5) = Find(src.v, sections[7].name).v
    /\ val.v.events # <<>>
    /\ val.v.events = Section_parse("Event", SpanText(src.v, 5)).v

-----------------------------------------------------------------------------
(* Properties of the field lookup, checked under SpecKV *)

\* A [General] text whose only line gives Mode the value `value`
ModeText(value) == <<"M", "o", "d", "e", ":", " ">> \o value \o <<"\n">>

\* C17: reading a Mode or Countdown value distinguishes a text that is not
\* an integer (a format error) from an integer outside 0..3 (a domain-value
\* error carrying the value), and the two are never reported as the same
\* error: the General-section parse returns different errors for
\* "Mode: abc" and "Mode: 7".
C17_FormatAndDomainErrorsDiffer ==
    (codec = "GeneralSection" /\ src = Some(ModeText(<<"7">>)) /\ pc # "text") =>
        /\ IsErr(val)
        /\ Gamemode_from_str(<<"7">>) # Gamemode_from_str(<<"a", "b", "c">>)
        /\ val # from_str(codec, ModeText(<<"a", "b", "c">>))

\* Field i of section c is read by the lookup alone: bookmarks and tags are
\* split further after it
LookupField(c, i) == ~(c = "EditorSection" /\ i = 1) /\ ~(c = "MetadataSection" /\ i = 8)

\* The value `v` is what the lookup gives the field `name` of type `type` on
\* `lines`: that of the text after the first ':' of the first line containing
\* the name, trimmed, or the type's default when no line contains the name
LookedUp(lines, name, type, v) ==
    IF ~SelectedLine(lines, name).some THEN v = ScalarDefault(type)
    ELSE /\ SplitOnce(SelectedLine(lines, name).v, ":").some
         /\ ScalarFromStr(type, Trim(SplitOnce(SelectedLine(lines, name).v, ":").v[2]))
            = Ok(v)

\* C20: get_field_name_value selects the first line, in section order, that
\* contains the field name anywhere in the line (so a field whose name occurs
\* inside another field's line that comes first reads that line), takes the
\* text after the first ':' with whitespace trimmed as the value, and returns
\* the type's default without error when no line contains the name.
C20_LookupFirstContainingLine ==
    KVParsed =>
        /\ IsOk(val) =>
              \A i \in 1..Len(KVFields(codec)) :
                  LookupField(codec, i) =>
                      LookedUp(SectionLines(src.v), KVFields(codec)[i].name,
                               KVFields(codec)[i].type, val.v[i])
        /\ (/\ codec # "EditorSection"
            /\ \A i \in 1..Len(KVFields(codec)) :
                   /\ ~MalformedFor(codec, SectionLines(src.v), i)
                   /\ ~NoPairFor(codec, SectionLines(src.v), i))
           => IsOk(val)

\* A [General] text whose only line is that of CountdownOffset has been
\* parsed: Countdown has read that line, and the fields no line names have
\* their defaults
C20_Witness ==
    /\ codec = "GeneralSection" /\ src.some /\ pc = "value"
    /\ Len(SectionLines(src.v)) = 1
    /\ StartsWith(SectionLines(src.v)[1], GeneralFields[16].name)
    /\ val.v[5] = "HALF" /\ val.v[16] = 2
    /\ val.v[8] = ScalarDefault("Gamemode")

-----------------------------------------------------------------------------
(* Properties of the error a field lookup returns, checked under SpecKV *)

\* Field i is the first field of section c, in declared order, whose
\* selected line of `lines` has no ':' or carries a value that does not parse
FirstFailing(c, lines, i) ==
    /\ NoPairFor(c, lines, i) \/ MalformedFor(c, lines, i)
    /\ \A j \in 1..(i - 1) : ~NoPairFor(c, lines, j) /\ ~MalformedFor(c, lines, j)

\* C21: when the line selected for a field contains no ':' character, the
\* lookup of that field fails with NotValidPair, and so does the parse of the
\* section when that field is the first, in declared order, to fail.
C21_NoColonIsNotValidPair ==
    KVParsed =>
        \A i \in 1..Len(KVFields(codec)) :
            NoPairFor(codec, SectionLines(src.v), i) =>
                /\ get_field_name_value(SectionLines(src.v), KVFields(codec)[i].name,
                                        KVFields(codec)[i].type) = Err(NotValidPair)
                /\ FirstFailing(codec, SectionLines(src.v), i) => val = Err(NotValidPair)

-----------------------------------------------------------------------------
(* Properties of the list codec on blank lines and storyboard lines, checked
   under SpecList *)

\* The line is not empty
NonEmpty(line) == line # <<>>

\* The results of the element parser on the non-empty lines of the list text t
NonEmptyLineResults(T, t) ==
    [i \in 1..Len(SelectSeq(TrimmedSplit(t, "\n"), NonEmpty)) |->
        Element_parse(T, SelectSeq(TrimmedSplit(t, "\n"), NonEmpty)[i])]

\* C22: CommaListOf::from_str hands only the non-empty lines to the element
\* parser: a blank line between records, and a list text that is empty,
\* produce no record and no error, so that when every non-empty line is
\* accepted or signalled as skippable the parse returns the accepted records.
C22_OnlyNonEmptyLinesParsed ==
    (/\ codec \in ListCodecs /\ src.some /\ pc # "text"
     /\ \A i \in 1..Len(NonEmptyLineResults(codec, src.v)) :
            \/ IsOk(NonEmptyLineResults(codec, src.v)[i])
            \/ Signalled(NonEmptyLineResults(codec, src.v)[i]))
    => val = Ok(AcceptedRecords(NonEmptyLineResults(codec, src.v)))

\* The event types of the storyboard commands
StoryboardTypes ==
    {<<"S", "p", "r", "i", "t", "e">>, <<"A", "n", "i", "m", "a", "t", "i", "o", "n">>,
     <<"S", "a", "m", "p", "l", "e">>}

\* The line is a storyboard line: not commentary, and its type is a
\* storyboard command
StoryboardLine(line) ==
    /\ ~StartsWith(line, <<"/", "/">>)
    /\ TrimmedSplit(line, ",")[1] \in StoryboardTypes

\* The line is one the [Events] list keeps or skips: a record, commentary or
\* a storyboard line
EventLineKeptOrSkipped(line) ==
    \/ StoryboardLine(line)
    \/ IsOk(Event_from_str(line))
    \/ Event_from_str(line) = Err(CommentaryEntry)

\* C23: an [Events] text containing a storyboard line, an event line whose
\* type is a storyboard command rather than Background, Video or Break,
\* parses successfully: the element parser signals StoryboardEntry for that
\* line, and the list holds the other events in order.
C23_StoryboardLineSkipped ==
    (/\ codec = "Event" /\ src.some /\ pc # "text"
     /\ \A i \in 1..Len(TrimmedSplit(src.v, "\n")) :
            EventLineKeptOrSkipped(TrimmedSplit(src.v, "\n")[i])
     /\ \E i \in 1..Len(TrimmedSplit(src.v, "\n")) :
            StoryboardLine(TrimmedSplit(src.v, "\n")[i]))
    => /\ \A i \in 1..Len(TrimmedSplit(src.v, "\n")) :
              StoryboardLine(TrimmedSplit(src.v, "\n")[i])
                  => LineResults(codec, src.v)[i] = Err(StoryboardEntry)
       /\ val = Ok(AcceptedRecords(LineResults(codec, src.v)))

-----------------------------------------------------------------------------
(* Properties of the type bits of a hit-object line, checked under
   SpecElement *)

\* The shape bits of typeBits, in the order the decoding tries them, and the
\* shape each selects
ShapeBits == <<0, 1, 3, 7>>

ShapeNames == <<"HitCircle", "Slider", "Spinner", "ManiaHold">>

\* The shape bits set in t
ShapeBitsOf(t) == BitsOf(t) \cap {ShapeBits[k] : k \in 1..4}

\* A line whose typeBits field is t, with or without a tail, has been parsed
TypeBitsParsed(t) ==
    /\ codec = "HitObjectLine" /\ pc # "text"
    /\ src \in {Some(TypeBitsLine(t)), Some(FiveFieldLine(t))}

\* C24: when exactly one of the four shape bits of typeBits is set, the
\* decoding selects bit0 -> hit circle, bit1 -> slider, bit3 -> spinner,
\* bit7 -> mania hold; when none is set, whatever bits 2, 4, 5, 6 are and
\* with valid x, y and time, HitObject::from_str fails with
\* InvalidFormat{field: "object_params"} and never falls back to a shape.
C24_ShapeBitSelectsShape ==
    \A t \in 0..255 :
        /\ \A k \in 1..4 :
               (/\ codec = "HitObjectLine" /\ pc # "text" /\ src = Some(TypeBitsLine(t))
                /\ ShapeBitsOf(t) = {ShapeBits[k]})
               => (IsOk(val) /\ val.v.object_params.type = ShapeNames[k])
        /\ (TypeBitsParsed(t) /\ ShapeBitsOf(t) = {})
           => val = Err(InvalidFormat(ObjectParamsField))

\* A line whose typeBits are 116 (bits 2, 4, 5, 6 and no shape bit) has been
\* rejected, and a line whose typeBits are 128 decodes to a mania hold
C24_Witness ==
    /\ codec = "HitObjectLine" /\ pc = "failed"
    /\ src = Some(TypeBitsLine(116))
    /\ val = Err(InvalidFormat(ObjectParamsField))
    /\ HitObject_from_str(TypeBitsLine(128)).v.object_params.type = "ManiaHold"

\* The first shape bit set in t, in the order of the decoding's arms
WinningShape(t) == MinOf({k \in 1..4 : ShapeBits[k] \in BitsOf(t)})

\* C25: when more than one shape bit is set in typeBits, the decoding is not
\* an error: one shape is selected by the fixed order bit0 (circle), bit1
\* (slider), bit3 (spinner), bit7 (hold), the first set bit in that order
\* winning, and the other shape bits are not kept: the line written back
\* carries the winning shape bit only.
C25_FirstShapeBitWins ==
    \A t \in 0..255 :
        (/\ codec = "HitObjectLine" /\ src = Some(TypeBitsLine(t))
         /\ pc \in {"out", "back", "failed", "done"}
         /\ Cardinality(ShapeBitsOf(t)) > 1)
        => /\ IsOk(val)
           /\ val.v.object_params.type = ShapeNames[WinningShape(t)]
           /\ IsOk(U8FromStr(WrittenField(out, 4)))
           /\ ShapeBitsOf(U8FromStr(WrittenField(out, 4)).v) = {ShapeBits[WinningShape(t)]}

\* A line whose typeBits are 138 (slider, spinner and hold bits) has been
\* parsed as a slider and written back with typeBits 2
C25_Witness ==
    /\ codec = "HitObjectLine" /\ pc = "out"
    /\ src = Some(TypeBitsLine(138))
    /\ val.v.object_params.type = "Slider"
    /\ WrittenField(out, 4) = <<"2">>

\* The sum of the weights (1, 2, 4) of the bits set among bits 4, 5, 6 of t
SkipWeights(t) ==
    (IF 4 \in BitsOf(t) THEN 1 ELSE 0) + (IF 5 \in BitsOf(t) THEN 2 ELSE 0)
    + (IF 6 \in BitsOf(t) THEN 4 ELSE 0)

\* A line whose typeBits field is t has been parsed to a hit object
TypeBitsDecoded(t) == TypeBitsParsed(t) /\ IsOk(val)

\* C26 as stated: for every typeBits value 0..255, HitObject::from_str sets
\* new_combo to true exactly when bit2 is set and combo_skip to the sum of
\* the weights of the bits set among raw bits 4, 5, 6 (weights 1, 2, 4).
C26_SkipCountOfRawBits ==
    \A t \in 0..255 :
        TypeBitsDecoded(t) =>
            /\ val.v.new_combo = (2 \in BitsOf(t))
            /\ val.v.combo_skip = SkipWeights(t)

\* C26, amended: for every typeBits value 0..255 that decodes to a hit
\* object, new_combo is true exactly when bit2 is set, and combo_skip is the
\* sum of the weights of the bits set among bits 4, 5, 6 when bit2 is set
\* and 0 when bit2 is not set.
C26_SkipCountAlongsideNewCombo ==
    \A t \in 0..255 :
        TypeBitsDecoded(t) =>
            /\ val.v.new_combo = (2 \in BitsOf(t))
            /\ val.v.combo_skip = (IF 2 \in BitsOf(t) THEN SkipWeights(t) ELSE 0)

\* A line whose typeBits are 81 (bits 0, 4, 6, without bit 2) has been parsed
\* with combo_skip 0, and one whose typeBits are 85 (the same with bit 2)
\* decodes with combo_skip 5
C26_Witness ==
    /\ codec = "HitObjectLine" /\ pc = "value"
    /\ src = Some(TypeBitsLine(81))
    /\ val.v.combo_skip = 0 /\ ~val.v.new_combo
    /\ HitObject_from_str(TypeBitsLine(85)).v.combo_skip = 5

\* A hit object the caller constructed, with new_combo true and combo_skip in
\* 0..7, has been written
GroupedObjectWritten ==
    /\ codec = "HitObjectLine" /\ ~src.some
    /\ pc \in {"out", "back", "failed", "done"}
    /\ val.v.new_combo /\ val.v.combo_skip \in 0..7

\* C27: HitObject::to_string inverts the decoding of the grouping fields: it
\* sets bit2 of typeBits exactly when new_combo is true and bits 4, 5, 6
\* exactly when combo_skip contains the weights 1, 2, 4, so that for every
\* object o with new_combo true and combo_skip in 0..7,
\* from_str(to_string(o)) has the new_combo and combo_skip of o.
C27_GroupingFieldsInverse ==
    GroupedObjectWritten =>
        /\ IsOk(U8FromStr(WrittenField(out, 4)))
        /\ 2 \in BitsOf(U8FromStr(WrittenField(out, 4)).v)
        /\ SkipWeights(U8FromStr(WrittenField(out, 4)).v) = val.v.combo_skip
        /\ pc # "out" => (/\ IsOk(back)
                          /\ back.v.new_combo = val.v.new_combo
                          /\ back.v.combo_skip = val.v.combo_skip)

-----------------------------------------------------------------------------
(* Properties of the timing-point effects, checked under SpecList *)

\* The effects field of the first line of the written list text
WrittenEffects == TrimmedSplit(TrimmedSplit(out, "\n")[1], ",")[8]

\* C28: the timing-point effects use bit 0 (kiai) and bit 3 (omit first
\* barline) of the effects integer: parsing keeps exactly these two bits and
\* drops the others, and serialization writes the kept bits back, so the
\* effects values 0, 1, 8 and 9 are written back unchanged.
C28_EffectsBitsZeroAndThree ==
    \A e \in 0..255 :
        (/\ codec = "TimingPoint" /\ src = Some(EffectsText(e))
         /\ pc \in {"out", "back", "failed", "done"})
        => /\ IsOk(val)
           /\ val.v[1].effects = BitAnd(e, 9)
           /\ WrittenEffects = NatToString(BitAnd(e, 9))
           /\ e \in {0, 1, 8, 9} => WrittenEffects = NatToString(e)

-----------------------------------------------------------------------------
(* Properties of the order of the checks of a document parse, checked under
   Spec *)

\* The section of the found header i is malformed: its codec does not accept
\* its span
Malformed(t, i) == i \in HeadersFound(t) /\ ~IsOk(SpanResults(t)[i])

\* C29: every header presence check happens before any section content is
\* parsed: when a mandatory header is missing, parse returns SectionNotFound
\* even when the content of an earlier section is malformed; when all
\* mandatory headers are present and several sections are malformed, parse
\* returns what the first malformed section returns, in the order General,
\* Editor, Metadata, Difficulty, Events, TimingPoints, Colours, HitObjects
\* (the sections being those of found headers laid out in declaration order).
C29_HeaderChecksBeforeContent ==
    DocParsed =>
        /\ HeadersAbsent(src.v) \cap MandatoryHeaders # {} =>
               (IsErr(val) /\ val.e.kind = "SectionNotFound")
        /\ (HeadersAbsent(src.v) \cap MandatoryHeaders = {} /\ HeadersInOrder(src.v)) =>
               \A i \in 1..Len(sections) :
                   (Malformed(src.v, i) /\ \A j \in 1..(i - 1) : ~Malformed(src.v, j))
                   => val = SpanResults(src.v)[i]

\* A text whose [General] section is malformed and which lacks a mandatory
\* header has been parsed: the missing header is reported
C29_Witness ==
    /\ DocParsed /\ pc = "failed" /\ HeadersInOrder(src.v)
    /\ HeadersAbsent(src.v) \cap MandatoryHeaders # {}
    /\ Malformed(src.v, 1)
    /\ IsErr(val) /\ val.e.kind = "SectionNotFound"

\* A text with all its mandatory headers and two malformed sections has been
\* parsed: the error is that of the first of the two
C29_SeveralMalformed ==
    /\ DocParsed /\ pc = "failed" /\ HeadersInOrder(src.v)
    /\ HeadersAbsent(src.v) \cap MandatoryHeaders = {}
    /\ Malformed(src.v, 1) /\ Malformed(src.v, 4)
    /\ val = SpanResults(src.v)[1] /\ val # SpanResults(src.v)[4]

-----------------------------------------------------------------------------
(* Properties of the edge sounds of a slider, checked under SpecElement *)

\* The texts joined by '|'
RECURSIVE BarJoined(_)
BarJoined(texts) ==
    IF texts = <<>> THEN <<>>
    ELSE IF Len(texts) = 1 THEN texts[1]
    ELSE texts[1] \o <<"|">> \o BarJoined(Tail(texts))

\* The texts of the sounds and of the "setA:setB" pairs of the edge sounds e
SoundTexts(e) == [i \in 1..Len(e.sounds) |-> NatToString(e.sounds[i])]

SetTexts(e) ==
    [i \in 1..Len(e.sets) |-> NatToString(e.sets[i][1]) \o <<":">> \o NatToString(e.sets[i][2])]

\* C30: EdgeSounds::to_string always writes the '|'-joined sounds and the
\* '|'-joined "setA:setB" pairs separated by exactly one comma, and
\* EdgeSounds::from_str parses that text back to the same sounds and sets,
\* for every pair of lists, also when either list is empty.
C30_EdgeSoundsOneComma ==
    (codec = "EdgeSounds" /\ ~src.some /\ pc \in {"out", "back", "failed", "done"}) =>
        /\ out = BarJoined(SoundTexts(val.v)) \o <<",">> \o BarJoined(SetTexts(val.v))
        /\ pc # "out" => back = val
====
